---- MODULE Spec2Model ----
(***************************************************************************)
(* Model of the RTA streaming relay: the session registry                  *)
(* (app/core/websocket_manager.py), the chunked clip ingestion and the     *)
(* worker pool (app/routes/websocket.py) and the alert triage engine       *)
(* (app/core/alerts.py).                                                   *)
(*                                                                         *)
(* Python dicts are functions whose DOMAIN is the set of keys present.     *)
(* Every coroutine is cut at the awaits where the event loop can run       *)
(* another coroutine; code between two such awaits is one atomic action.   *)
(***************************************************************************)
EXTENDS Integers, Sequences, FiniteSets, TLC

\* ------------------------------------------------------------------ bounds

\* Number of camera transports (websocket connections) that ever connect.
NumTransports == 3
\* Cap on the number of clip-begin messages (processing_stats.clips_received).
MaxClips == 1
\* Cap on the number of chunks appended to one pending clip.
MaxChunks == 2

\* The same caps for the worker-pool specification, which takes more clips from
\* fewer cameras.
PoolMaxClips == 2
PoolMaxChunks == 1

\* The alert engine: minutes the clock runs, send_alert_message calls, and
\* detections per call.
MaxTime == 6
MaxCalls == 2
MaxDet == 2

\* The viewer registry: viewer transports that ever connect, and broadcasts made.
NumViewers == 3
MaxBroadcasts == 1

\* The live-frame throttle: frames handed to process_frame, and seconds on the
\* performance counter.
MaxFrames == 10
MaxPerf == 4
MaxRecipients == 2
MaxOutputClips == 4
MaxBegins == 2
MaxStreamFrames == 31

\* ---------------------------------------------------------- input alphabets

Transports == 1..NumTransports
\* Camera tokens with a row in the cameras table.
KnownTokens == {"T1"}
\* A token without a row in the cameras table.
UnknownToken == "X"
\* clipNumber values cameras send.
ClipNumbers == {5, 6}
\* totalChunks values cameras declare.
TotalChunks == {1}
\* Binary payloads (non-empty byte strings, as the loop skips an empty payload).
Chunks == {<<1>>, <<2, 3>>}
\* The cameras of the clip-protocol specification: one camera and its successor.
ClipTransports == {1, 2}
\* The cameras, clip numbers and payloads of the worker-pool specification.
PoolTransports == {1, 2}
PoolClipNumbers == {5}
PoolChunks == {<<1>>}
\* Rows of the cameras table the alert engine looks up: camera_token -> location.
Cameras == [t \in {"T1", "T2"} |-> IF t = "T1" THEN "L1" ELSE "L2"]
\* camera_id values passed to send_alert_message; "unknown" is the default of
\* run_yolo_on_webm and has no row.
CameraIds == {"T1", "T2", "unknown"}
\* Detections: class 2 is dangerous, 4 endangered, 9 neither; confidence in hundredths.
Detections == [class_id : {2, 4, 9}, confidence : {49, 90}]
\* What the detection backend does with a clip: it raises, or it returns detections.
InferenceOutcomes ==
    {[error |-> TRUE, detections |-> <<>>],
     [error |-> FALSE, detections |-> <<>>],
     [error |-> FALSE, detections |-> <<[class_id |-> 2, confidence |-> 90]>>]}
\* The cameraId values of live frames, the process_frame calls in flight (the
\* frames of the live stream are handed over one at a time), and the processing
\* times of a frame in milliseconds (below half the target time per frame,
\* between, above twice the target).
FrameCameras == {"A", "B"}
FrameTasks == {1}
InferenceTimes == {10, 40, 100}
\* Viewer transports, and the camera token all of them watch.
Viewers == 1..NumViewers
ViewedToken == "T1"
\* The default of run_yolo_on_webm's camera_id parameter.
DEFAULT_CAMERA_ID == "unknown"

\* ---------------------------------------------------------------- constants

MAX_QUEUE_SIZE == 3
_worker_count == 3
SUPERSEDED == 4000
NOT_FOUND == 4404
GOING_AWAY == 1001
ALERT_COOLDOWN_MINUTES == 5
\* The alerting confidence threshold 0.50, in hundredths.
ALERT_CONFIDENCE == 50
\* The confidence 0.50 from which run_yolo_on_webm keeps a detection, in hundredths.
DRAW_CONFIDENCE == 50
DANGEROUS_ANIMALS == {0, 1, 2, 3}
ENDANGERED_ANIMALS == {4}
\* The mapped columns of the Camera model; an attribute outside of them does not
\* exist on a Camera row and reading it raises AttributeError.
\* RealtimeYOLOProcessor.__init__
target_fps == 30
max_inference_interval == 30
min_inference_interval == 5
detection_cache_duration == 2

CameraColumns == {"id", "name", "location", "is_residential", "public_slug",
                  "camera_token", "created_at", "is_active"}

VARIABLES
    pc,                    \* pc[w]: where the handler camera_websocket of transport w is
    tok,                   \* tok[w]: the {token} path parameter of transport w
    closeCode,             \* closeCode[w]: code the server closed w with, 0 when it did not
    active_connections,    \* ConnectionManager.active_connections
    viewers,               \* ConnectionManager.viewers
    pending_video_data,    \* routes/websocket.py pending_video_data
    video_processing_queue,\* routes/websocket.py video_processing_queue
    processing_stats,      \* routes/websocket.py processing_stats
    processed_video_queues,\* routes/websocket.py processed_video_queues
    _background_worker_started,        \* routes/websocket.py _background_worker_started
    wtask,                 \* wtask[i]: <<task>> while worker i is inside process_video_clip
    rx,                    \* history: what transport w sent since its last clip-begin
    taken,                 \* history: taken[id] = times task id was dequeued
    finished,              \* history: finished[id] = times processing of task id ended
    fate,                  \* history: fate[k] = what became of the clip of the k-th clip-begin
    last,                  \* history: what the last step did, when a claim is about it
    now,                   \* the clock datetime.now() reads, in minutes
    _alert_cache,           \* alerts.py _alert_cache, keyed <<channel, location>>
    alert_log,             \* history: every call of _send_official_alert / _send_civilian_alert
    call,                  \* history: the arguments of the last SendAlertMessage step
    vpc,                   \* vpc[v]: where the connect_viewer call of viewer transport v is
    vclient,               \* vclient[v]: client_state of viewer transport v
    vsendfails,            \* vsendfails[v]: a send or close on v raises (closed or broken)
    bcast,                 \* the broadcast_to_viewers call: its locals and what it did
    dall,                  \* the disconnect_all call: where it is in its viewer loop
    inference_interval,    \* RealtimeYOLOProcessor.inference_interval
    frames_since_inference, \* frames_since_inference[camera_id]
    last_detections,       \* last_detections[camera_id]: the timestamp of the entry
    perf_counter,          \* time.perf_counter() in seconds
    ftask,                 \* ftask[k]: where the k-th process_frame call is
    frames,                \* history: frames handed to process_frame so far
    decision,              \* history: the last inference decision, and per camera the CACHE decisions since its last RUN
    whatsapp,              \* history: the last send_wildlife_whatsapp_alert call and what it returned
    worker_tasks           \* the video_processing_worker tasks asyncio.create_task made so far

ingestVars == <<pc, tok, closeCode, active_connections, viewers,
                pending_video_data, video_processing_queue, processing_stats,
                processed_video_queues, _background_worker_started, wtask, rx, taken,
                finished, fate, last>>

alertVars == <<now, _alert_cache, alert_log, call>>

viewerVars == <<vpc, vclient, vsendfails, bcast, dall>>

throttleVars == <<inference_interval, frames_since_inference, last_detections,
                  perf_counter, ftask, frames, decision>>

notifyVars == <<whatsapp>>

poolVars == <<worker_tasks>>

\* The state of routes/websocket.py and the transports, without the two
\* registry maps.
handlerVars == <<pc, tok, closeCode, pending_video_data, video_processing_queue,
                 processing_stats, processed_video_queues,
                 _background_worker_started, wtask, rx, taken, finished, fate, last>>

\* ------------------------------------------------------------ dict helpers

Put(d, k, v) == [x \in (DOMAIN d) \cup {k} |-> IF x = k THEN v ELSE d[x]]
Pop(d, k) == [x \in (DOMAIN d) \ {k} |-> d[x]]
EmptyDict == [x \in {} |-> 0]

\* ------------------------------------------------------- transport states

\* starlette WebSocket.client_state as the handlers of this program see it:
\* CONNECTED from accept() until the handler has received websocket.disconnect.
client_state(w) ==
    IF pc[w] = "new" THEN "CONNECTING"
    ELSE IF pc[w] = "done" THEN "DISCONNECTED"
    ELSE "CONNECTED"

\* starlette WebSocket.application_state: DISCONNECTED once the server sent a close.
application_state(w) ==
    IF pc[w] = "new" THEN "CONNECTING"
    ELSE IF closeCode[w] # 0 \/ pc[w] = "done" THEN "DISCONNECTED"
    ELSE "CONNECTED"

\* The transport is open: accepted, not closed by the server, peer not gone.
IsOpen(w) == pc[w] \in {"accepted", "closing_old", "loop"} /\ closeCode[w] = 0

\* ------------------------------------------------------------ clip assembly

RECURSIVE SumLen(_)
\* sum(len(chunk) for chunk in chunks)
SumLen(chunks) ==
    IF chunks = <<>> THEN 0 ELSE Len(Head(chunks)) + SumLen(Tail(chunks))

\* assembled_video[offset:offset + len(chunk)] = chunk
SliceAssign(buf, offset, chunk) ==
    [i \in 1..Len(buf) |->
        IF i > offset /\ i <= offset + Len(chunk) THEN chunk[i - offset] ELSE buf[i]]

RECURSIVE Fill(_, _, _)
\* the for-loop over video_data['chunks'] with its running offset
Fill(buf, offset, chunks) ==
    IF chunks = <<>> THEN buf
    ELSE Fill(SliceAssign(buf, offset, Head(chunks)),
              offset + Len(Head(chunks)), Tail(chunks))

\* bytes(assembled_video): a zeroed bytearray of the total size, filled chunk by chunk
AssembleChunks(chunks) == Fill([i \in 1..SumLen(chunks) |-> 0], 0, chunks)

\* ----------------------------------------------------------- session registry

\* ConnectionManager.disconnect_camera
disconnect_camera(camera_token) ==
    active_connections' =
        IF camera_token \in DOMAIN active_connections
        THEN Pop(active_connections, camera_token)
        ELSE active_connections

\* connect_camera, lines 33-34: install the transport and make sure a viewer list exists
InstallCamera(w) ==
    /\ active_connections' = Put(active_connections, tok[w], w)
    /\ viewers' = IF tok[w] \in DOMAIN viewers THEN viewers
                  ELSE Put(viewers, tok[w], <<>>)

\* Mutant of start_background_workers: the workers are never started.
start_background_workers_skipped == UNCHANGED <<_background_worker_started, worker_tasks>>

\* Mutant of start_background_workers: the flag is not tested, every call
\* creates its workers.
start_background_workers_respawns ==
    /\ worker_tasks' = worker_tasks + _worker_count
    /\ _background_worker_started' = TRUE

\* start_background_workers: the flag is tested and set without an await in
\* between; the first call creates _worker_count worker tasks.
start_background_workers ==
    IF ~_background_worker_started
    THEN /\ worker_tasks' = worker_tasks + _worker_count
         /\ _background_worker_started' = TRUE
    ELSE UNCHANGED <<_background_worker_started, worker_tasks>>

\* ------------------------------------------------------------ camera handler

Step(op) == last' = op

\* camera_websocket for a token without a camera row: close(4404) before accept.
CameraReject(w) ==
    /\ pc[w] = "new"
    /\ \A v \in Transports : v < w => pc[v] # "new"
    /\ pc' = [pc EXCEPT ![w] = "done"]
    /\ tok' = [tok EXCEPT ![w] = UnknownToken]
    /\ closeCode' = [closeCode EXCEPT ![w] = NOT_FOUND]
    /\ Step("other")
    /\ UNCHANGED alertVars
    /\ UNCHANGED throttleVars
    /\ UNCHANGED notifyVars
    /\ UNCHANGED poolVars
    /\ UNCHANGED viewerVars
    /\ UNCHANGED <<active_connections, viewers, pending_video_data,
                   video_processing_queue, processing_stats, processed_video_queues,
                   _background_worker_started, wtask, rx, taken, finished, fate>>

\* camera_websocket for a known token up to the first await of connect_camera:
\* the workers are started and websocket.accept() is awaited.
CameraAccept(w) ==
    /\ pc[w] = "new"
    /\ \A v \in Transports : v < w => pc[v] # "new"
    /\ \E t \in KnownTokens : tok' = [tok EXCEPT ![w] = t]
    /\ start_background_workers
    /\ pc' = [pc EXCEPT ![w] = "accepted"]
    /\ Step("other")
    /\ UNCHANGED alertVars
    /\ UNCHANGED throttleVars
    /\ UNCHANGED notifyVars
    /\ UNCHANGED viewerVars
    /\ UNCHANGED <<closeCode, active_connections, viewers, pending_video_data,
                   video_processing_queue, processing_stats, processed_video_queues,
                   wtask, rx, taken, finished, fate>>

\* connect_camera after accept(): look up the registered camera; close it with 4000
\* when it is still CONNECTED (the close is awaited), else install at once. A close
\* on a transport the server already closed raises before any await and is swallowed.
ConnectCameraCheckOld(w) ==
    /\ pc[w] = "accepted"
    /\ LET old_ws == IF tok[w] \in DOMAIN active_connections
                     THEN active_connections[tok[w]] ELSE 0
       IN IF old_ws # 0 /\ client_state(old_ws) = "CONNECTED"
             /\ application_state(old_ws) = "CONNECTED"
          THEN /\ closeCode' = [closeCode EXCEPT ![old_ws] = SUPERSEDED]
               /\ pc' = [pc EXCEPT ![w] = "closing_old"]
               /\ UNCHANGED <<active_connections, viewers>>
          ELSE /\ InstallCamera(w)
               /\ pc' = [pc EXCEPT ![w] = "loop"]
               /\ UNCHANGED closeCode
    /\ Step("other")
    /\ UNCHANGED alertVars
    /\ UNCHANGED throttleVars
    /\ UNCHANGED notifyVars
    /\ UNCHANGED poolVars
    /\ UNCHANGED viewerVars
    /\ UNCHANGED <<tok, pending_video_data, video_processing_queue, processing_stats,
                   processed_video_queues, _background_worker_started, wtask, rx, taken, finished, fate>>

\* connect_camera resumed after the awaited close of the old transport.
ConnectCameraInstall(w) ==
    /\ pc[w] = "closing_old"
    /\ InstallCamera(w)
    /\ pc' = [pc EXCEPT ![w] = "loop"]
    /\ Step("other")
    /\ UNCHANGED alertVars
    /\ UNCHANGED throttleVars
    /\ UNCHANGED notifyVars
    /\ UNCHANGED poolVars
    /\ UNCHANGED viewerVars
    /\ UNCHANGED <<tok, closeCode, pending_video_data, video_processing_queue,
                   processing_stats, processed_video_queues, _background_worker_started, wtask,
                   rx, taken, finished, fate>>

\* Mutant of begin_video_clip: a clip-begin that arrives while a clip is being
\* received keeps the chunks received so far.
begin_video_clip_keeps_chunks(token, clip_number) ==
    /\ pending_video_data' = Put(pending_video_data, token,
           [metadata |-> Len(fate) + 1,
            clip_number |-> clip_number,
            chunks |-> IF token \in DOMAIN pending_video_data
                       THEN pending_video_data[token].chunks ELSE <<>>,
            expected_chunks |-> 0,
            received_chunks |-> IF token \in DOMAIN pending_video_data
                                THEN pending_video_data[token].received_chunks ELSE 0])
    /\ processing_stats' = [processing_stats EXCEPT
                               !.clips_received = @ + 1]
    /\ fate' = Append(IF token \in DOMAIN pending_video_data
                      THEN [fate EXCEPT ![pending_video_data[token].metadata] = "replaced"]
                      ELSE fate,
                      "pending")

\* handle_camera_text_message, branch "video_metadata": a fresh pending clip
\* replaces whatever is pending for the token.
\* 'metadata' is the message itself, identified by its ordinal among clip-begins.
begin_video_clip(token, clip_number) ==
    /\ pending_video_data' = Put(pending_video_data, token,
           [metadata |-> Len(fate) + 1,
            clip_number |-> clip_number, chunks |-> <<>>,
            expected_chunks |-> 0, received_chunks |-> 0])
    /\ processing_stats' = [processing_stats EXCEPT
                               !.clips_received = @ + 1]
    /\ fate' = Append(IF token \in DOMAIN pending_video_data
                      THEN [fate EXCEPT ![pending_video_data[token].metadata] = "replaced"]
                      ELSE fate,
                      "pending")

\* handle_camera_text_message, branch "video_chunk": the declared chunk count.
declare_chunk_count(token, clip_number, total) ==
    pending_video_data' =
        IF token \in DOMAIN pending_video_data
           /\ pending_video_data[token].clip_number = clip_number
        THEN [pending_video_data EXCEPT ![token].expected_chunks = total]
        ELSE pending_video_data

\* Mutant of finalize_video_clip: the clip number is not compared.
finalize_video_clip_unchecked(token, clip_number) ==
    IF token \notin DOMAIN pending_video_data
    THEN UNCHANGED <<pending_video_data, video_processing_queue, taken, finished, fate>>
    ELSE /\ video_processing_queue' = Append(video_processing_queue,
               [token |-> token,
                video_data |-> AssembleChunks(pending_video_data[token].chunks),
                clip_number |-> clip_number,
                metadata |-> pending_video_data[token].metadata,
                id |-> Len(taken) + 1])
         /\ taken' = Append(taken, 0)
         /\ finished' = Append(finished, 0)
         /\ fate' = [fate EXCEPT ![pending_video_data[token].metadata] = "submitted"]
         /\ pending_video_data' = Pop(pending_video_data, token)

\* Mutant of finalize_video_clip: a clip whose number of chunks differs from a
\* declared count is not submitted.
finalize_video_clip_enforced(token, clip_number) ==
    IF token \notin DOMAIN pending_video_data
    THEN UNCHANGED <<pending_video_data, video_processing_queue, taken, finished, fate>>
    ELSE IF \/ pending_video_data[token].clip_number # clip_number
            \/ /\ pending_video_data[token].expected_chunks # 0
               /\ pending_video_data[token].received_chunks #
                      pending_video_data[token].expected_chunks
    THEN UNCHANGED <<pending_video_data, video_processing_queue, taken, finished, fate>>
    ELSE /\ video_processing_queue' = Append(video_processing_queue,
               [token |-> token,
                video_data |-> AssembleChunks(pending_video_data[token].chunks),
                clip_number |-> clip_number,
                metadata |-> pending_video_data[token].metadata,
                id |-> Len(taken) + 1])
         /\ taken' = Append(taken, 0)
         /\ finished' = Append(finished, 0)
         /\ fate' = [fate EXCEPT ![pending_video_data[token].metadata] = "submitted"]
         /\ pending_video_data' = Pop(pending_video_data, token)

\* finalize_video_clip: nothing happens without a pending clip or on a clip number
\* mismatch; otherwise the chunks are assembled, the task is queued (the queue is
\* unbounded, so put() does not suspend) and the pending clip is removed.
finalize_video_clip(token, clip_number) ==
    IF token \notin DOMAIN pending_video_data
    THEN UNCHANGED <<pending_video_data, video_processing_queue, taken, finished, fate>>
    ELSE IF pending_video_data[token].clip_number # clip_number
    THEN UNCHANGED <<pending_video_data, video_processing_queue, taken, finished, fate>>
    ELSE /\ video_processing_queue' = Append(video_processing_queue,
               [token |-> token,
                video_data |-> AssembleChunks(pending_video_data[token].chunks),
                clip_number |-> clip_number,
                metadata |-> pending_video_data[token].metadata,
                id |-> Len(taken) + 1])
         /\ taken' = Append(taken, 0)
         /\ finished' = Append(finished, 0)
         /\ fate' = [fate EXCEPT ![pending_video_data[token].metadata] = "submitted"]
         /\ pending_video_data' = Pop(pending_video_data, token)

\* handle_camera_binary_message: a chunk without a pending clip is dropped,
\* otherwise it is appended to the pending clip of the token.
handle_camera_binary_message(token, chunk_data) ==
    pending_video_data' =
        IF token \notin DOMAIN pending_video_data THEN pending_video_data
        ELSE [pending_video_data EXCEPT
                 ![token].chunks = Append(@, chunk_data),
                 ![token].received_chunks = @ + 1]

\* The read loop runs while application_state is CONNECTED and a message arrives.
InLoop(w) == pc[w] = "loop" /\ application_state(w) = "CONNECTED"

\* One text message {"type": "video_metadata", "clipNumber": c}.
CameraVideoMetadata(w, c) ==
    /\ InLoop(w)
    /\ begin_video_clip(tok[w], c)
    /\ rx' = [rx EXCEPT ![w] = <<[clip |-> c, chunks |-> <<>>]>>]
    /\ Step(IF tok[w] \in DOMAIN pending_video_data
               /\ pending_video_data[tok[w]].chunks # <<>>
            THEN "begin_replaces" ELSE "other")
    /\ UNCHANGED alertVars
    /\ UNCHANGED throttleVars
    /\ UNCHANGED notifyVars
    /\ UNCHANGED poolVars
    /\ UNCHANGED viewerVars
    /\ UNCHANGED <<pc, tok, closeCode, active_connections, viewers,
                   video_processing_queue, processed_video_queues, _background_worker_started,
                   wtask, taken, finished>>

\* One text message {"type": "video_chunk", "clipNumber": c, "totalChunks": n}.
CameraVideoChunk(w, c) ==
    /\ InLoop(w)
    /\ \E n \in TotalChunks : declare_chunk_count(tok[w], c, n)
    /\ Step("other")
    /\ UNCHANGED alertVars
    /\ UNCHANGED throttleVars
    /\ UNCHANGED notifyVars
    /\ UNCHANGED poolVars
    /\ UNCHANGED viewerVars
    /\ UNCHANGED <<pc, tok, closeCode, active_connections, viewers,
                   video_processing_queue, processing_stats, processed_video_queues,
                   _background_worker_started, wtask, rx, taken, finished, fate>>

\* One text message {"type": "video_complete", "clipNumber": c}.
CameraVideoComplete(w, c) ==
    /\ InLoop(w)
    /\ finalize_video_clip(tok[w], c)
    /\ rx' = [rx EXCEPT ![w] = IF @ # <<>> /\ @[1].clip = c THEN <<>> ELSE @]
    /\ Step(IF tok[w] \notin DOMAIN pending_video_data THEN "complete_nopending"
            ELSE IF pending_video_data[tok[w]].clip_number # c THEN "complete_mismatch"
            ELSE "complete_match")
    /\ UNCHANGED alertVars
    /\ UNCHANGED throttleVars
    /\ UNCHANGED notifyVars
    /\ UNCHANGED poolVars
    /\ UNCHANGED viewerVars
    /\ UNCHANGED <<pc, tok, closeCode, active_connections, viewers,
                   processing_stats, processed_video_queues, _background_worker_started, wtask>>

\* One binary message with a non-empty payload.
CameraBinary(w, chunk) ==
    /\ InLoop(w)
    /\ handle_camera_binary_message(tok[w], chunk)
    /\ rx' = [rx EXCEPT ![w] = IF @ = <<>> THEN @
                                ELSE <<[@[1] EXCEPT !.chunks = Append(@, chunk)]>>]
    /\ Step(IF tok[w] \in DOMAIN pending_video_data THEN "other"
            ELSE "chunk_rejected")
    /\ UNCHANGED alertVars
    /\ UNCHANGED throttleVars
    /\ UNCHANGED notifyVars
    /\ UNCHANGED poolVars
    /\ UNCHANGED viewerVars
    /\ UNCHANGED <<pc, tok, closeCode, active_connections, viewers,
                   video_processing_queue, processing_stats, processed_video_queues,
                   _background_worker_started, wtask, taken, finished, fate>>

\* Mutant of camera_cleanup: the pending clip is left behind.
camera_cleanup_keeps_clip(token) ==
    /\ disconnect_camera(token)
    /\ UNCHANGED pending_video_data

\* camera_websocket, the finally block: the handler's cleanup by token.
camera_cleanup(token) ==
    /\ disconnect_camera(token)
    /\ pending_video_data' = Pop(pending_video_data, token)

\* The loop ends: websocket.disconnect was received (the peer went away, or the
\* server closed the transport), and the finally block runs.
CameraDisconnect(w) ==
    /\ pc[w] = "loop"
    /\ camera_cleanup(tok[w])
    /\ fate' = IF tok[w] \in DOMAIN pending_video_data
               THEN [fate EXCEPT ![pending_video_data[tok[w]].metadata] = "discarded"]
               ELSE fate
    /\ pc' = [pc EXCEPT ![w] = "done"]
    /\ rx' = [rx EXCEPT ![w] = <<>>]
    /\ Step(IF tok[w] \in DOMAIN pending_video_data THEN "disconnect_discard"
            ELSE "other")
    /\ UNCHANGED alertVars
    /\ UNCHANGED throttleVars
    /\ UNCHANGED notifyVars
    /\ UNCHANGED poolVars
    /\ UNCHANGED viewerVars
    /\ UNCHANGED <<tok, closeCode, viewers, video_processing_queue, processing_stats,
                   processed_video_queues, _background_worker_started, wtask, taken, finished>>

\* One text message that json.loads rejects (JSONDecodeError is caught in the
\* loop), or a JSON object whose "type" no branch of handle_camera_text_message
\* knows, such as "frame_metadata": nothing happens.
CameraTextIgnored(w, kind) ==
    /\ InLoop(w)
    /\ kind \in {"invalid_json", "unknown_type"}
    /\ Step(kind)
    /\ UNCHANGED alertVars
    /\ UNCHANGED throttleVars
    /\ UNCHANGED notifyVars
    /\ UNCHANGED poolVars
    /\ UNCHANGED viewerVars
    /\ UNCHANGED <<pc, tok, closeCode, active_connections, viewers, pending_video_data,
                   video_processing_queue, processing_stats, processed_video_queues,
                   _background_worker_started, wtask, rx, taken, finished, fate>>

\* One text message that is JSON but not an object (a list, a number, a string,
\* null): data.get raises AttributeError in handle_camera_text_message, which
\* the loop does not catch; `except Exception` outside the loop ends the
\* handler and the finally block runs.
CameraTextNotObject(w) ==
    /\ InLoop(w)
    /\ camera_cleanup(tok[w])
    /\ fate' = IF tok[w] \in DOMAIN pending_video_data
               THEN [fate EXCEPT ![pending_video_data[tok[w]].metadata] = "discarded"]
               ELSE fate
    /\ pc' = [pc EXCEPT ![w] = "done"]
    /\ rx' = [rx EXCEPT ![w] = <<>>]
    /\ Step("not_object")
    /\ UNCHANGED alertVars
    /\ UNCHANGED throttleVars
    /\ UNCHANGED notifyVars
    /\ UNCHANGED poolVars
    /\ UNCHANGED viewerVars
    /\ UNCHANGED <<tok, closeCode, viewers, video_processing_queue, processing_stats,
                   processed_video_queues, _background_worker_started, wtask, taken, finished>>

\* ---------------------------------------------------------------- worker pool

Workers == 1.._worker_count

\* add_to_processed_queue: append, then evict from the front down to MAX_QUEUE_SIZE.
RECURSIVE TrimQueue(_)
TrimQueue(queue) ==
    IF Len(queue) > MAX_QUEUE_SIZE THEN TrimQueue(Tail(queue)) ELSE queue

\* Mutant of add_to_processed_queue: nothing is evicted.
add_to_processed_queue_unbounded(token, video_item) ==
    processed_video_queues' =
        Put(processed_video_queues, token,
            Append(IF token \in DOMAIN processed_video_queues
                   THEN processed_video_queues[token] ELSE <<>>,
                   video_item))

add_to_processed_queue(token, video_item) ==
    processed_video_queues' =
        Put(processed_video_queues, token,
            TrimQueue(Append(IF token \in DOMAIN processed_video_queues
                             THEN processed_video_queues[token] ELSE <<>>,
                             video_item)))

\* Mutant of get_video_for_viewer: the newest clip of the queue is returned.
get_video_for_viewer_latest(token) ==
    IF token \notin DOMAIN processed_video_queues
    THEN <<>>
    ELSE LET queue == processed_video_queues[token]
         IN IF Len(queue) >= 1 THEN <<queue[Len(queue)]>> ELSE <<>>

\* get_video_for_viewer: the clip before the newest one of the token's output
\* queue when the queue holds two or more, the only clip when it holds one, and
\* None (the empty sequence here) without a queue or with an empty one.
get_video_for_viewer(token) ==
    IF token \notin DOMAIN processed_video_queues
    THEN <<>>
    ELSE LET queue == processed_video_queues[token]
         IN IF Len(queue) >= 2 THEN <<queue[Len(queue) - 1]>>
            ELSE IF Len(queue) = 1 THEN <<queue[Len(queue)]>>
            ELSE <<>>

\* Mutant of queue_get: the task is read but left in the queue.
queue_get_peek(i) ==
    /\ wtask' = [wtask EXCEPT ![i] = <<Head(video_processing_queue)>>]
    /\ UNCHANGED video_processing_queue
    /\ taken' = [taken EXCEPT ![Head(video_processing_queue).id] = @ + 1]

\* video_processing_worker: `await video_processing_queue.get()` returns a task.
queue_get(i) ==
    /\ wtask' = [wtask EXCEPT ![i] = <<Head(video_processing_queue)>>]
    /\ video_processing_queue' = Tail(video_processing_queue)
    /\ taken' = [taken EXCEPT ![Head(video_processing_queue).id] = @ + 1]

\* Idle workers are interchangeable: the one with the lowest index takes the task.
WorkerGet(i) ==
    /\ _background_worker_started
    /\ wtask[i] = <<>>
    /\ \A j \in Workers : j < i => wtask[j] # <<>>
    /\ video_processing_queue # <<>>
    /\ queue_get(i)
    /\ Step("other")
    /\ UNCHANGED alertVars
    /\ UNCHANGED throttleVars
    /\ UNCHANGED notifyVars
    /\ UNCHANGED poolVars
    /\ UNCHANGED viewerVars
    /\ UNCHANGED <<pc, tok, closeCode, active_connections, viewers,
                   pending_video_data, processing_stats, processed_video_queues,
                   _background_worker_started, rx, finished, fate>>

\* Mutant of process_failed: the failed task goes back to the end of the queue.
process_failed_requeued(i) ==
    /\ processing_stats' = [processing_stats EXCEPT !.clips_failed = @ + 1]
    /\ video_processing_queue' = Append(video_processing_queue, wtask[i][1])

\* process_video_clip, the except branch, taken when run_yolo_on_webm itself
\* raises: the failure is counted, nothing is queued.
process_failed(i) ==
    /\ processing_stats' = [processing_stats EXCEPT !.clips_failed = @ + 1]
    /\ UNCHANGED video_processing_queue

WorkerFailed(i) ==
    /\ wtask[i] # <<>>
    /\ process_failed(i)
    /\ finished' = [finished EXCEPT ![wtask[i][1].id] = @ + 1]
    /\ wtask' = [wtask EXCEPT ![i] = <<>>]
    /\ Step("other")
    /\ UNCHANGED alertVars
    /\ UNCHANGED throttleVars
    /\ UNCHANGED notifyVars
    /\ UNCHANGED poolVars
    /\ UNCHANGED viewerVars
    /\ UNCHANGED <<pc, tok, closeCode, active_connections, viewers,
                   pending_video_data, processed_video_queues, _background_worker_started,
                   rx, taken, fate>>

\* ---------------------------------------------------------------- alert engine

\* One entry of alert_log: a channel function was called for a detection of the
\* given tier; queued tells whether it got as far as _queue_*_alert.
Attempt(channel, location, tier, confidence, timestamp, queued) ==
    [channel |-> channel, location |-> location, tier |-> tier,
     confidence |-> confidence, at |-> timestamp, queued |-> queued]

\* `camera.location or "..."` for the row of camera token `camera`.
LocationOf(camera) == IF Cameras[camera] = "" THEN "unknown place" ELSE Cameras[camera]

\* _can_send_civilian_alert
_can_send_civilian_alert(cache, location, current_time) ==
    ~ (/\ <<"civilian", location>> \in DOMAIN cache
       /\ current_time - cache[<<"civilian", location>>] < ALERT_COOLDOWN_MINUTES)

\* _can_send_official_alert
_can_send_official_alert(cache, location, current_time) ==
    ~ (/\ <<"official", location>> \in DOMAIN cache
       /\ current_time - cache[<<"official", location>>] < ALERT_COOLDOWN_MINUTES)

\* _update_alert_cache
_update_alert_cache(cache, location, timestamp) ==
    Put(cache, <<"civilian", location>>, timestamp)

\* _update_official_alert_cache
_update_official_alert_cache(cache, location, timestamp) ==
    Put(cache, <<"official", location>>, timestamp)

\* The alert functions are run on a record st = [cache, log, raised]: the cooldown
\* cache, the attempts so far, and whether an exception is propagating.

\* _send_civilian_alert: the payload reads camera.phone_number before
\* _queue_civilian_alert is reached.
_send_civilian_alert(st, camera, tier, confidence, timestamp) ==
    IF "phone_number" \in CameraColumns
    THEN [st EXCEPT !.log = Append(@, Attempt("civilian", LocationOf(camera), tier,
                                               confidence, timestamp, TRUE))]
    ELSE [st EXCEPT !.log = Append(@, Attempt("civilian", LocationOf(camera), tier,
                                               confidence, timestamp, FALSE)),
                    !.raised = TRUE]

\* _send_official_alert: the message and the payload read camera.phone_number
\* before _queue_official_alert is reached.
_send_official_alert(st, camera, tier, confidence, timestamp) ==
    IF "phone_number" \in CameraColumns
    THEN [st EXCEPT !.log = Append(@, Attempt("official", LocationOf(camera), tier,
                                               confidence, timestamp, TRUE))]
    ELSE [st EXCEPT !.log = Append(@, Attempt("official", LocationOf(camera), tier,
                                               confidence, timestamp, FALSE)),
                    !.raised = TRUE]

RECURSIVE DangerousLoop(_, _, _, _, _)
\* _process_dangerous_animal_alerts, the loop over the detections: the official
\* alert first, then the civilian alert and its cache entry when the cooldown,
\* read once before the loop, allowed it.
DangerousLoop(st, camera, detections, timestamp, can_alert_civilians) ==
    IF detections = <<>> \/ st.raised THEN st
    ELSE LET confidence == Head(detections).confidence
             s1 == _send_official_alert(st, camera, "dangerous", confidence, timestamp)
             s2 == IF s1.raised \/ ~can_alert_civilians THEN s1
                   ELSE _send_civilian_alert(s1, camera, "dangerous", confidence,
                                             timestamp)
             s3 == IF s2.raised \/ ~can_alert_civilians THEN s2
                   ELSE [s2 EXCEPT !.cache =
                            _update_alert_cache(@, LocationOf(camera), timestamp)]
         IN DangerousLoop(s3, camera, Tail(detections), timestamp, can_alert_civilians)

\* Mutant of _process_dangerous_animal_alerts: the civilian alert goes out for the
\* first detection without the cooldown being read.
_process_dangerous_animal_alerts_unguarded(st, camera, detections, timestamp) ==
    _send_civilian_alert(st, camera, "dangerous", Head(detections).confidence, timestamp)

\* _process_dangerous_animal_alerts
_process_dangerous_animal_alerts(st, camera, detections, timestamp) ==
    DangerousLoop(st, camera, detections, timestamp,
                  _can_send_civilian_alert(st.cache, LocationOf(camera), timestamp))

RECURSIVE EndangeredLoop(_, _, _, _, _)
\* _process_endangered_animal_alerts, the loop over the detections.
EndangeredLoop(st, camera, detections, timestamp, can_alert_officials) ==
    IF detections = <<>> \/ st.raised THEN st
    ELSE LET confidence == Head(detections).confidence
             s1 == IF ~can_alert_officials THEN st
                   ELSE _send_official_alert(st, camera, "endangered", confidence,
                                             timestamp)
             s2 == IF s1.raised \/ ~can_alert_officials THEN s1
                   ELSE [s1 EXCEPT !.cache =
                            _update_official_alert_cache(@, LocationOf(camera), timestamp)]
         IN EndangeredLoop(s2, camera, Tail(detections), timestamp, can_alert_officials)

\* _process_endangered_animal_alerts
_process_endangered_animal_alerts(st, camera, detections, timestamp) ==
    EndangeredLoop(st, camera, detections, timestamp,
                   _can_send_official_alert(st.cache, LocationOf(camera), timestamp))

\* Mutant of IsDangerous: a confidence of exactly ALERT_CONFIDENCE is dropped.
IsDangerous_strict(d) ==
    d.class_id \in DANGEROUS_ANIMALS /\ d.confidence > ALERT_CONFIDENCE

\* send_alert_message, lines 65-78: the two buckets.
IsDangerous(d) == d.class_id \in DANGEROUS_ANIMALS /\ d.confidence >= ALERT_CONFIDENCE
IsEndangered(d) == d.class_id \in ENDANGERED_ANIMALS /\ d.confidence >= ALERT_CONFIDENCE

\* send_alert_message: the camera row is looked up, the detections are sorted into
\* the buckets, the dangerous bucket is processed and then the endangered one.
\* An exception of either ends the call (it is logged at lines 101-103). No await
\* of the call suspends, so the call is one step.
send_alert_message(camera_id, detections) ==
    LET timestamp == now
        s0 == [cache |-> _alert_cache, log |-> alert_log, raised |-> FALSE]
        dangerous_detections == SelectSeq(detections, IsDangerous)
        endangered_detections == SelectSeq(detections, IsEndangered)
        s1 == IF dangerous_detections = <<>> THEN s0
              ELSE _process_dangerous_animal_alerts(s0, camera_id,
                                                   dangerous_detections, timestamp)
        s2 == IF endangered_detections = <<>> \/ s1.raised THEN s1
              ELSE _process_endangered_animal_alerts(s1, camera_id,
                                                    endangered_detections, timestamp)
    IN IF camera_id \notin DOMAIN Cameras
       THEN UNCHANGED <<_alert_cache, alert_log>>
       ELSE /\ _alert_cache' = s2.cache
            /\ alert_log' = s2.log

\* ------------------------------------------------------------ clip inference

\* _process, lines 149-155: the detections kept for the alert.
MeetsDrawConfidence(d) == d.confidence >= DRAW_CONFIDENCE

\* run_yolo_on_webm: _process catches whatever the detection backend raises and
\* returns the input bytes with no alert data; otherwise the detections at or
\* above the drawing confidence, when there are any, go to send_alert_message
\* under the camera_id argument.
run_yolo_on_webm(camera_id, outcome) ==
    LET all_detections == SelectSeq(outcome.detections, MeetsDrawConfidence)
    IN IF outcome.error \/ all_detections = <<>>
       THEN UNCHANGED <<_alert_cache, alert_log>>
       ELSE send_alert_message(camera_id, all_detections)

\* process_video_clip when run_yolo_on_webm returns: it is called with the clip
\* bytes alone, so camera_id takes its default; then the stats are updated and
\* the returned bytes are added to the output queue of the token. This is also
\* the path of a clip on which the backend raised, as run_yolo_on_webm returns
\* the input bytes then.
WorkerProcessed(i) ==
    /\ wtask[i] # <<>>
    /\ \E outcome \in InferenceOutcomes :
           /\ run_yolo_on_webm(DEFAULT_CAMERA_ID, outcome)
           /\ Step(IF outcome.error THEN "backend_error"
                   ELSE IF \E k \in DOMAIN outcome.detections :
                               IsDangerous(outcome.detections[k])
                        THEN "processed_dangerous"
                   ELSE "other")
    /\ processing_stats' = [processing_stats EXCEPT !.clips_processed = @ + 1]
    /\ add_to_processed_queue(wtask[i][1].token,
           [clip_number |-> wtask[i][1].clip_number, id |-> wtask[i][1].id])
    /\ finished' = [finished EXCEPT ![wtask[i][1].id] = @ + 1]
    /\ wtask' = [wtask EXCEPT ![i] = <<>>]
    /\ UNCHANGED <<now, call>>
    /\ UNCHANGED throttleVars
    /\ UNCHANGED notifyVars
    /\ UNCHANGED poolVars
    /\ UNCHANGED viewerVars
    /\ UNCHANGED <<pc, tok, closeCode, active_connections, viewers,
                   pending_video_data, video_processing_queue, _background_worker_started,
                   rx, taken, fate>>

\* Detection lists of one to n detections.
DetectionLists(n) == UNION {[1..k -> Detections] : k \in 1..n}

\* A caller awaits send_alert_message(camera_id, {'detections': detections}, ...).
SendAlertMessage(camera_id, detections) ==
    /\ call.n < MaxCalls
    /\ send_alert_message(camera_id, detections)
    /\ call' = [n |-> call.n + 1, camera_id |-> camera_id,
                detections |-> detections, at |-> now]
    /\ UNCHANGED now
    /\ UNCHANGED ingestVars
    /\ UNCHANGED throttleVars
    /\ UNCHANGED notifyVars
    /\ UNCHANGED poolVars
    /\ UNCHANGED viewerVars

\* A minute passes.
Tick ==
    /\ now < MaxTime
    /\ now' = now + 1
    /\ UNCHANGED <<_alert_cache, alert_log, call>>
    /\ UNCHANGED ingestVars
    /\ UNCHANGED throttleVars
    /\ UNCHANGED notifyVars
    /\ UNCHANGED poolVars
    /\ UNCHANGED viewerVars

\* ------------------------------------------------------------ viewer registry

\* list.remove(ws) on a list that holds ws at most once (connect_viewer appends a
\* transport only when it is not in the list).
Remove(list, ws) == LET Keep(x) == x # ws IN SelectSeq(list, Keep)

\* The elements of a list.
Range(list) == {list[k] : k \in DOMAIN list}

\* broadcast_to_viewers before it is called for the n-th time. The fields idx,
\* cur and disconnected are its locals (the position of the list iterator, the
\* transport it is sending to, the list of dead sockets); detached holds the list
\* it iterates once the registry no longer refers to that list. The other
\* fields are history: the viewer list and the broken viewers when the call
\* started, whom it tried to send to, whom it delivered to, and whether nothing
\* else touched the viewers while it was suspended.
IdleBroadcast(n) ==
    [pc |-> "idle", n |-> n, idx |-> 0, cur |-> 0, disconnected |-> <<>>,
     detached |-> <<>>, start |-> <<>>, broken |-> {}, attempted |-> {},
     delivered |-> {}, quiet |-> TRUE]

\* Another coroutine ran while the broadcast was suspended in a send.
Disturbed(b) == IF b.pc = "sending" THEN [b EXCEPT !.quiet = FALSE] ELSE b

\* connect_viewer up to its await: websocket.accept().
ViewerAccept(v) ==
    /\ vpc[v] = "new"
    /\ \A u \in Viewers : u < v => vpc[u] # "new"
    /\ vpc' = [vpc EXCEPT ![v] = "accepted"]
    /\ vclient' = [vclient EXCEPT ![v] = "CONNECTED"]
    /\ UNCHANGED <<vsendfails, bcast, dall, active_connections, viewers>>
    /\ UNCHANGED handlerVars
    /\ UNCHANGED alertVars
    /\ UNCHANGED throttleVars
    /\ UNCHANGED notifyVars
    /\ UNCHANGED poolVars

\* connect_viewer after accept(): setdefault, then append when not in the list.
ViewerRegister(v) ==
    /\ vpc[v] = "accepted"
    /\ vpc' = [vpc EXCEPT ![v] = "registered"]
    /\ LET list == IF ViewedToken \in DOMAIN viewers THEN viewers[ViewedToken]
                   ELSE <<>>
       IN viewers' = Put(viewers, ViewedToken,
                         IF v \in Range(list) THEN list ELSE Append(list, v))
    /\ bcast' = Disturbed(bcast)
    /\ UNCHANGED <<vclient, vsendfails, dall, active_connections>>
    /\ UNCHANGED handlerVars
    /\ UNCHANGED alertVars
    /\ UNCHANGED throttleVars
    /\ UNCHANGED notifyVars
    /\ UNCHANGED poolVars

\* Mutant of disconnect_viewer: a transport that is not in the list costs the
\* list its last element.
disconnect_viewer_pops(websocket, camera_token) ==
    viewers' = IF camera_token \notin DOMAIN viewers THEN viewers
               ELSE IF websocket \in Range(viewers[camera_token])
               THEN [viewers EXCEPT ![camera_token] = Remove(@, websocket)]
               ELSE [viewers EXCEPT ![camera_token] =
                        SubSeq(@, 1, IF Len(@) = 0 THEN 0 ELSE Len(@) - 1)]

\* ConnectionManager.disconnect_viewer
disconnect_viewer(websocket, camera_token) ==
    viewers' = IF camera_token \in DOMAIN viewers
               THEN [viewers EXCEPT ![camera_token] = Remove(@, websocket)]
               ELSE viewers

\* Some caller runs disconnect_viewer for a registered viewer transport.
DisconnectViewer(v) ==
    /\ vpc[v] = "registered"
    /\ ViewedToken \in DOMAIN viewers /\ v \in Range(viewers[ViewedToken])
    /\ disconnect_viewer(v, ViewedToken)
    /\ bcast' = Disturbed(bcast)
    /\ UNCHANGED <<vpc, vclient, vsendfails, dall, active_connections>>
    /\ UNCHANGED handlerVars
    /\ UNCHANGED alertVars
    /\ UNCHANGED throttleVars
    /\ UNCHANGED notifyVars
    /\ UNCHANGED poolVars

\* Some caller runs disconnect_viewer for a transport that is not in the viewer
\* list of the token (it was removed before), or for a token without a list.
DisconnectViewerAgain(v, camera_token) ==
    /\ vpc[v] \in {"registered", "returned"}
    /\ camera_token \in DOMAIN viewers => v \notin Range(viewers[camera_token])
    /\ disconnect_viewer(v, camera_token)
    /\ Step("disconnect_viewer_absent")
    /\ UNCHANGED <<vpc, vclient, vsendfails, bcast, dall, active_connections>>
    /\ UNCHANGED <<pc, tok, closeCode, pending_video_data, video_processing_queue,
                   processing_stats, processed_video_queues,
                   _background_worker_started, wtask, rx, taken, finished, fate>>
    /\ UNCHANGED alertVars
    /\ UNCHANGED throttleVars
    /\ UNCHANGED notifyVars
    /\ UNCHANGED poolVars

\* viewer_websocket of main.py, lines 299-305: receive_text raises (the peer
\* disconnected, or the receive failed), the bare except inside the loop
\* breaks, and the handler returns; `except WebSocketDisconnect` around the
\* loop, which calls disconnect_viewer, is never reached.
ViewerHandlerEnds(v) ==
    /\ vpc[v] = "registered"
    /\ vclient[v] = "DISCONNECTED" \/ vsendfails[v]
    /\ vpc' = [vpc EXCEPT ![v] = "returned"]
    /\ UNCHANGED <<vclient, vsendfails, bcast, dall, active_connections, viewers>>
    /\ UNCHANGED handlerVars
    /\ UNCHANGED alertVars
    /\ UNCHANGED throttleVars
    /\ UNCHANGED notifyVars
    /\ UNCHANGED poolVars

\* The peer of a viewer transport disconnects: client_state becomes DISCONNECTED.
ViewerGoesAway(v) ==
    /\ vclient[v] = "CONNECTED"
    /\ vclient' = [vclient EXCEPT ![v] = "DISCONNECTED"]
    /\ bcast' = Disturbed(bcast)
    /\ UNCHANGED <<vpc, vsendfails, dall, active_connections, viewers>>
    /\ UNCHANGED handlerVars
    /\ UNCHANGED alertVars
    /\ UNCHANGED throttleVars
    /\ UNCHANGED notifyVars
    /\ UNCHANGED poolVars

\* The connection of a viewer transport breaks: sends on it raise from now on.
ViewerBreaks(v) ==
    /\ vclient[v] = "CONNECTED"
    /\ ~vsendfails[v]
    /\ vsendfails' = [vsendfails EXCEPT ![v] = TRUE]
    /\ bcast' = Disturbed(bcast)
    /\ UNCHANGED <<vpc, vclient, dall, active_connections, viewers>>
    /\ UNCHANGED handlerVars
    /\ UNCHANGED alertVars
    /\ UNCHANGED throttleVars
    /\ UNCHANGED notifyVars
    /\ UNCHANGED poolVars

RECURSIVE BroadcastLoop(_, _)
\* broadcast_to_viewers, lines 68-79: the loop over the list from the iterator's
\* position up to the next send that is awaited. A transport that is not
\* CONNECTED is passed over; a send that raises puts the transport on the
\* disconnected list.
BroadcastLoop(b, list) ==
    IF b.idx >= Len(list) THEN [b EXCEPT !.pc = "removing"]
    ELSE LET ws == list[b.idx + 1]
             nb == [b EXCEPT !.idx = @ + 1]
         IN IF vclient[ws] # "CONNECTED" THEN BroadcastLoop(nb, list)
            ELSE IF vsendfails[ws]
            THEN BroadcastLoop([nb EXCEPT !.attempted = @ \cup {ws},
                                          !.disconnected = Append(@, ws)], list)
            ELSE [nb EXCEPT !.pc = "sending", !.cur = ws,
                            !.attempted = @ \cup {ws}]

RECURSIVE RemoveDead(_, _, _)
\* broadcast_to_viewers, lines 82-86: self.viewers[camera_token].remove(ws) for
\* every dead socket; ValueError is caught, the KeyError of a token that is no
\* longer in the map is not.
RemoveDead(registry, camera_token, disconnected) ==
    IF disconnected = <<>> THEN [viewers |-> registry, raised |-> FALSE]
    ELSE IF camera_token \notin DOMAIN registry
    THEN [viewers |-> registry, raised |-> TRUE]
    ELSE RemoveDead([registry EXCEPT ![camera_token] = Remove(@, Head(disconnected))],
                    camera_token, Tail(disconnected))

\* The broadcast ran up to a send, or to the end of its loop and through the
\* removal of the dead sockets.
BroadcastSettles(b) ==
    IF b.pc = "removing"
    THEN LET r == RemoveDead(viewers, ViewedToken, b.disconnected)
         IN /\ viewers' = r.viewers
            /\ bcast' = [b EXCEPT !.pc = IF r.raised THEN "raised" ELSE "returned"]
    ELSE /\ viewers' = viewers
         /\ bcast' = b

\* broadcast_to_viewers is called and runs up to its first awaited send.
BroadcastStart ==
    /\ bcast.pc # "sending"
    /\ bcast.n < MaxBroadcasts
    /\ IF ViewedToken \notin DOMAIN viewers
       THEN /\ bcast' = [IdleBroadcast(bcast.n + 1) EXCEPT !.pc = "returned"]
            /\ UNCHANGED viewers
       ELSE BroadcastSettles(BroadcastLoop(
                [IdleBroadcast(bcast.n + 1) EXCEPT
                    !.start = viewers[ViewedToken],
                    !.broken = {v \in Range(viewers[ViewedToken]) :
                                   vclient[v] # "CONNECTED" \/ vsendfails[v]}],
                viewers[ViewedToken]))
    /\ UNCHANGED <<vpc, vclient, vsendfails, dall, active_connections>>
    /\ UNCHANGED handlerVars
    /\ UNCHANGED alertVars
    /\ UNCHANGED throttleVars
    /\ UNCHANGED notifyVars
    /\ UNCHANGED poolVars

\* The awaited send ends, by returning or by raising, and the loop goes on over
\* the list object it started with, as that list is now.
BroadcastResume ==
    /\ bcast.pc = "sending"
    /\ LET b == IF vsendfails[bcast.cur]
                THEN [bcast EXCEPT !.disconnected = Append(@, bcast.cur)]
                ELSE [bcast EXCEPT !.delivered = @ \cup {bcast.cur}]
           list == IF bcast.detached # <<>> THEN bcast.detached[1]
                   ELSE viewers[ViewedToken]
       IN BroadcastSettles(BroadcastLoop(b, list))
    /\ UNCHANGED <<vpc, vclient, vsendfails, dall, active_connections>>
    /\ UNCHANGED handlerVars
    /\ UNCHANGED alertVars
    /\ UNCHANGED throttleVars
    /\ UNCHANGED notifyVars
    /\ UNCHANGED poolVars

\* self.viewers.clear(): a broadcast that is suspended keeps the list it iterates.
ViewersCleared(b) ==
    IF b.pc = "sending" /\ b.detached = <<>> /\ ViewedToken \in DOMAIN viewers
    THEN [b EXCEPT !.detached = <<viewers[ViewedToken]>>, !.quiet = FALSE]
    ELSE Disturbed(b)

\* disconnect_all before it is called. The fields idx, seen and size are its
\* locals (the position in the viewer list, the camera tokens the dict iterator
\* has passed, and the size of the camera map the iterator remembers); pending
\* is history: the transports registered when it was called on which close()
\* has not been called yet.
IdleDisconnectAll == [pc |-> "idle", idx |-> 0, seen |-> {}, size |-> 0, pending |-> {}]

\* The transports in the two maps.
RegisteredTransports ==
    {<<"camera", active_connections[t]>> : t \in DOMAIN active_connections}
        \cup {<<"viewer", v>> : v \in UNION {Range(viewers[t]) : t \in DOMAIN viewers}}

RECURSIVE CameraCloses(_, _)
\* disconnect_all, the camera loop from the tokens seen so far to its next
\* suspension: close(code=1001) raises at once on a transport that is not
\* CONNECTED, which is printed, and is awaited on one that is. cur is the
\* transport whose close is awaited, 0 when the loop is over.
CameraCloses(seen, pending) ==
    IF DOMAIN active_connections \ seen = {}
    THEN [seen |-> seen, pending |-> pending, cur |-> 0]
    ELSE LET token == CHOOSE t \in DOMAIN active_connections \ seen : TRUE
             ws == active_connections[token]
         IN IF application_state(ws) = "CONNECTED"
            THEN [seen |-> seen \cup {token}, pending |-> pending \ {<<"camera", ws>>},
                  cur |-> ws]
            ELSE CameraCloses(seen \cup {token}, pending \ {<<"camera", ws>>})

\* disconnect_all, the viewer loop up to its first awaited close; without a
\* viewer the viewer map is cleared at once. A close makes every later send on
\* the transport raise.
DisconnectAllViewers(pending) ==
    IF ViewedToken \in DOMAIN viewers /\ viewers[ViewedToken] # <<>>
    THEN /\ vsendfails' = [vsendfails EXCEPT ![viewers[ViewedToken][1]] = TRUE]
         /\ dall' = [IdleDisconnectAll EXCEPT
                        !.pc = "closing", !.idx = 1,
                        !.pending = pending \ {<<"viewer", viewers[ViewedToken][1]>>}]
         /\ bcast' = Disturbed(bcast)
         /\ UNCHANGED viewers
    ELSE /\ viewers' = EmptyDict
         /\ dall' = [IdleDisconnectAll EXCEPT !.pc = "done", !.pending = pending]
         /\ bcast' = ViewersCleared(bcast)
         /\ UNCHANGED vsendfails

\* disconnect_all from the camera loop on: the next camera whose close is
\* awaited is closed with 1001; after the loop the camera map is cleared and the
\* viewer loop begins.
DisconnectAllCameras(seen, pending, size) ==
    LET r == CameraCloses(seen, pending)
    IN IF r.cur # 0
       THEN /\ closeCode' = [closeCode EXCEPT ![r.cur] = GOING_AWAY]
            /\ dall' = [IdleDisconnectAll EXCEPT
                           !.pc = "closing_camera", !.seen = r.seen, !.size = size,
                           !.pending = r.pending]
            /\ UNCHANGED <<active_connections, viewers, vsendfails, bcast>>
       ELSE /\ active_connections' = EmptyDict
            /\ DisconnectAllViewers(r.pending)
            /\ UNCHANGED closeCode

\* disconnect_all is called (the shutdown event of app.py), up to its first
\* awaited close.
DisconnectAllStart ==
    /\ dall.pc = "idle"
    /\ DisconnectAllCameras({}, RegisteredTransports,
                            Cardinality(DOMAIN active_connections))
    /\ UNCHANGED <<vpc, vclient>>
    /\ UNCHANGED <<pc, tok, pending_video_data, video_processing_queue,
                   processing_stats, processed_video_queues,
                   _background_worker_started, wtask, rx, taken, finished, fate, last>>
    /\ UNCHANGED alertVars
    /\ UNCHANGED throttleVars
    /\ UNCHANGED notifyVars
    /\ UNCHANGED poolVars

\* disconnect_all after an awaited close of a camera: the iterator of
\* active_connections.items() raises RuntimeError when the map has changed its
\* size meanwhile, which ends disconnect_all; else the loop goes on.
DisconnectAllCameraResume ==
    /\ dall.pc = "closing_camera"
    /\ IF Cardinality(DOMAIN active_connections) # dall.size
       THEN /\ dall' = [dall EXCEPT !.pc = "raised"]
            /\ UNCHANGED <<closeCode, active_connections, viewers, vsendfails, bcast>>
       ELSE DisconnectAllCameras(dall.seen, dall.pending, dall.size)
    /\ UNCHANGED <<vpc, vclient>>
    /\ UNCHANGED <<pc, tok, pending_video_data, video_processing_queue,
                   processing_stats, processed_video_queues,
                   _background_worker_started, wtask, rx, taken, finished, fate, last>>
    /\ UNCHANGED alertVars
    /\ UNCHANGED throttleVars
    /\ UNCHANGED notifyVars
    /\ UNCHANGED poolVars

\* disconnect_all after an awaited close of a viewer: the next viewer of the
\* list is closed, or the loop is over and the viewer map is cleared.
DisconnectAllResume ==
    /\ dall.pc = "closing"
    /\ IF dall.idx < Len(viewers[ViewedToken])
       THEN /\ vsendfails' = [vsendfails EXCEPT
                                 ![viewers[ViewedToken][dall.idx + 1]] = TRUE]
            /\ dall' = [dall EXCEPT
                           !.idx = @ + 1,
                           !.pending = @ \ {<<"viewer", viewers[ViewedToken][dall.idx + 1]>>}]
            /\ bcast' = Disturbed(bcast)
            /\ UNCHANGED viewers
       ELSE /\ viewers' = EmptyDict
            /\ dall' = [dall EXCEPT !.pc = "done", !.idx = 0]
            /\ bcast' = ViewersCleared(bcast)
            /\ UNCHANGED vsendfails
    /\ UNCHANGED <<vpc, vclient, active_connections>>
    /\ UNCHANGED handlerVars
    /\ UNCHANGED alertVars
    /\ UNCHANGED throttleVars
    /\ UNCHANGED notifyVars
    /\ UNCHANGED poolVars

\* ------------------------------------------------------ live-frame throttle

IdleFrameTask == [pc |-> "idle", camera_id |-> "A", current_time |-> 0, run |-> FALSE]

\* process_frame, lines 60-66: tracking for a camera seen for the first time.
Tracked(counters, camera_id) ==
    IF camera_id \in DOMAIN counters THEN counters ELSE Put(counters, camera_id, 0)

\* Mutant of should_run_inference: a camera without an inference is not special.
should_run_inference_warm(counter, interval, timestamp, current_time) ==
    \/ counter >= interval
    \/ current_time - timestamp > detection_cache_duration

\* Mutant of should_run_inference: the frame counter is not looked at.
should_run_inference_uncounted(counter, interval, timestamp, current_time) ==
    \/ timestamp = 0
    \/ current_time - timestamp > detection_cache_duration

\* process_frame, lines 76-80, after the counter has been incremented.
should_run_inference(counter, interval, timestamp, current_time) ==
    \/ counter >= interval
    \/ timestamp = 0
    \/ current_time - timestamp > detection_cache_duration

\* Mutant of _adaptive_inference_adjustment: the interval is not clamped.
_adaptive_inference_adjustment_unclamped(interval, inference_time) ==
    IF target_fps * inference_time > 2 * 1000 THEN interval + 2
    ELSE IF 2 * target_fps * inference_time < 1000 THEN interval - 1
    ELSE interval

\* _adaptive_inference_adjustment, with the time in milliseconds:
\* inference_time > 2/target_fps, inference_time < 0.5/target_fps.
_adaptive_inference_adjustment(interval, inference_time) ==
    IF target_fps * inference_time > 2 * 1000
    THEN IF interval + 2 < max_inference_interval THEN interval + 2
         ELSE max_inference_interval
    ELSE IF 2 * target_fps * inference_time < 1000
    THEN IF interval - 1 > min_inference_interval THEN interval - 1
         ELSE min_inference_interval
    ELSE interval

\* A frame task slot is taken in order.
FreeTask(k) ==
    /\ ftask[k].pc = "idle"
    /\ \A j \in FrameTasks : j < k => ftask[j].pc # "idle"

\* process_frame for a frame that cannot be decoded: the camera is tracked
\* (lines 60-66), the decoding raises (69-70) and the call returns None.
FrameUndecodable(camera_id) ==
    /\ frames' = frames + 1
    /\ frames_since_inference' = Tracked(frames_since_inference, camera_id)
    /\ last_detections' = Tracked(last_detections, camera_id)
    /\ UNCHANGED <<inference_interval, perf_counter, ftask, decision>>
    /\ UNCHANGED <<ingestVars, alertVars, viewerVars, notifyVars, poolVars>>

\* process_frame up to its first await (lines 55-84 and 97): the camera is
\* tracked, its counter incremented and the decision taken; the inference, or
\* the drawing of the cached detections, runs in a thread.
FrameArrives(k, camera_id) ==
    /\ FreeTask(k)
    /\ frames' = frames + 1
    /\ LET counters == Tracked(frames_since_inference, camera_id)
           timestamp == Tracked(last_detections, camera_id)[camera_id]
           run == should_run_inference(counters[camera_id] + 1, inference_interval,
                                       timestamp, perf_counter)
       IN /\ frames_since_inference' = [counters EXCEPT ![camera_id] = @ + 1]
          /\ last_detections' = Tracked(last_detections, camera_id)
          /\ ftask' = [ftask EXCEPT ![k] =
                          [pc |-> IF run THEN "inferring" ELSE "encoding",
                           camera_id |-> camera_id, current_time |-> perf_counter,
                           run |-> run]]
          /\ decision' = [made |-> TRUE, camera_id |-> camera_id,
                          run |-> run, cold |-> timestamp = 0,
                          cached |-> [decision.cached EXCEPT ![camera_id] =
                                         IF run THEN 0 ELSE @ + 1]]
    /\ UNCHANGED <<inference_interval, perf_counter>>
    /\ UNCHANGED <<ingestVars, alertVars, viewerVars, notifyVars, poolVars>>

\* process_frame after the inference (lines 87-102): the counter is reset and
\* the entry of the camera stamped with the time the frame arrived. An inference
\* that failed yields no frame and the call returns; else the frame is encoded
\* in a thread.
FrameInferred(k) ==
    /\ ftask[k].pc = "inferring"
    /\ frames_since_inference' =
           [frames_since_inference EXCEPT ![ftask[k].camera_id] = 0]
    /\ last_detections' =
           [last_detections EXCEPT ![ftask[k].camera_id] = ftask[k].current_time]
    /\ \E processed_frame \in {"none", "frame"} :
           ftask' = [ftask EXCEPT ![k] =
                        IF processed_frame = "none" THEN IdleFrameTask
                        ELSE [@ EXCEPT !.pc = "encoding"]]
    /\ UNCHANGED <<inference_interval, perf_counter, frames, decision>>
    /\ UNCHANGED <<ingestVars, alertVars, viewerVars, notifyVars, poolVars>>

\* process_frame after the encoding (lines 110-113): _update_stats adjusts the
\* interval by the time the call took.
FrameEncoded(k) ==
    /\ ftask[k].pc = "encoding"
    /\ \E inference_time \in InferenceTimes :
           inference_interval' =
               _adaptive_inference_adjustment(inference_interval, inference_time)
    /\ ftask' = [ftask EXCEPT ![k] = IdleFrameTask]
    /\ UNCHANGED <<frames_since_inference, last_detections, perf_counter, frames,
                   decision>>
    /\ UNCHANGED <<ingestVars, alertVars, viewerVars, notifyVars, poolVars>>

\* A second passes on the performance counter.
PerfTick ==
    /\ perf_counter < MaxPerf
    /\ perf_counter' = perf_counter + 1
    /\ UNCHANGED <<inference_interval, frames_since_inference, last_detections,
                   ftask, frames, decision>>
    /\ UNCHANGED <<ingestVars, alertVars, viewerVars, notifyVars, poolVars>>

\* ---------------------------------------------------------- WhatsApp alerts

\* Entries of a phone_numbers list: a local number, a number with its country
\* code, and an entry that is not a string (None).
LocalPhone == [str |-> TRUE, plus |-> FALSE, digits |-> <<9, 8>>]
FullPhone == [str |-> TRUE, plus |-> TRUE, digits |-> <<9, 7, 7, 9, 7>>]
NonePhone == [str |-> FALSE, plus |-> FALSE, digits |-> <<>>]
PhoneEntries == {LocalPhone, FullPhone, NonePhone}

\* What the API answers to one send_species_alert, which catches its own
\* exceptions: a result with success True or with success False.
SendResponses == {"sent", "rejected"}

\* The evidence video: none, one within 15 MB, one above 15 MB that the
\* compression brings down, and one above 15 MB on which the compression raises.
Videos == {"none", "small", "large_compressed", "large_uncompressible"}

\* send_wildlife_whatsapp_alert, lines 382-386: the country code +977 is put
\* before a number without '+'.
formatted_phone(phone) ==
    IF ~phone.plus THEN [phone EXCEPT !.plus = TRUE, !.digits = <<9, 7, 7>> \o @]
    ELSE phone

\* The returns without a data part (lines 352, 365, 433).
WhatsappError(status) ==
    [status |-> status, success |-> FALSE, data |-> <<>>, raised |-> FALSE]

RECURSIVE WhatsappLoop(_, _, _, _)
\* send_wildlife_whatsapp_alert, the loop over phone_numbers (lines 380-415):
\* startswith raises on an entry that is not a string, which the except of the
\* loop body turns into a failed result for the entry as it was given; else the
\* result of send_species_alert is recorded under the formatted number.
WhatsappLoop(phone_numbers, responses, results, success_count) ==
    IF phone_numbers = <<>>
    THEN [results |-> results, success_count |-> success_count]
    ELSE LET phone == Head(phone_numbers)
             success == Head(responses) = "sent"
         IN IF ~phone.str
            THEN WhatsappLoop(Tail(phone_numbers), Tail(responses),
                              Append(results, [phone |-> phone, success |-> FALSE]),
                              success_count)
            ELSE WhatsappLoop(Tail(phone_numbers), Tail(responses),
                              Append(results, [phone |-> formatted_phone(phone),
                                               success |-> success]),
                              IF success THEN success_count + 1 ELSE success_count)

\* send_wildlife_whatsapp_alert: 400 without recipients, 500 when the
\* compression of a video above 15 MB raises, else the loop and its summary.
\* Every Exception is caught inside, so the call returns in each case.
send_wildlife_whatsapp_alert(phone_numbers, responses, video) ==
    IF phone_numbers = <<>> THEN WhatsappError(400)
    ELSE IF video = "large_uncompressible" THEN WhatsappError(500)
    ELSE LET r == WhatsappLoop(phone_numbers, responses, <<>>, 0)
         IN [status |-> 200, success |-> r.success_count > 0,
             data |-> <<[total_sent |-> Len(phone_numbers),
                         successful |-> r.success_count,
                         failed |-> Len(phone_numbers) - r.success_count,
                         results |-> r.results]>>,
             raised |-> FALSE]

NoWhatsappCall ==
    [called |-> FALSE, phone_numbers |-> <<>>, responses |-> <<>>, video |-> "none",
     result |-> WhatsappError(0)]

\* A caller awaits send_wildlife_whatsapp_alert; responses[k] is what the API
\* answers for the k-th entry when it is sent to.
SendWildlifeWhatsappAlert(phone_numbers, responses, video) ==
    /\ whatsapp' = [called |-> TRUE, phone_numbers |-> phone_numbers,
                    responses |-> responses, video |-> video,
                    result |-> send_wildlife_whatsapp_alert(phone_numbers, responses,
                                                            video)]
    /\ UNCHANGED <<ingestVars, alertVars, viewerVars, throttleVars, poolVars>>

\* ------------------------------------------------------------- specification

vars == <<ingestVars, alertVars, viewerVars, throttleVars, notifyVars, poolVars>>

Init ==
    /\ pc = [w \in Transports |-> "new"]
    /\ tok = [w \in Transports |-> UnknownToken]
    /\ closeCode = [w \in Transports |-> 0]
    /\ active_connections = EmptyDict
    /\ viewers = EmptyDict
    /\ pending_video_data = EmptyDict
    /\ video_processing_queue = <<>>
    /\ processing_stats = [clips_received |-> 0, clips_processed |-> 0,
                           clips_failed |-> 0]
    /\ processed_video_queues = EmptyDict
    /\ _background_worker_started = FALSE
    /\ wtask = [i \in Workers |-> <<>>]
    /\ rx = [w \in Transports |-> <<>>]
    /\ taken = <<>>
    /\ finished = <<>>
    /\ fate = <<>>
    /\ last = "other"
    /\ now = 0
    /\ _alert_cache = EmptyDict
    /\ alert_log = <<>>
    /\ call = [n |-> 0, camera_id |-> "unknown", detections |-> <<>>, at |-> 0]
    /\ vpc = [v \in Viewers |-> "new"]
    /\ vclient = [v \in Viewers |-> "CONNECTING"]
    /\ vsendfails = [v \in Viewers |-> FALSE]
    /\ bcast = IdleBroadcast(0)
    /\ dall = IdleDisconnectAll
    /\ inference_interval = 15
    /\ frames_since_inference = EmptyDict
    /\ last_detections = EmptyDict
    /\ perf_counter = 1
    /\ ftask = [k \in FrameTasks |-> IdleFrameTask]
    /\ frames = 0
    /\ decision = [made |-> FALSE, camera_id |-> "A", run |-> FALSE, cold |-> FALSE,
                   cached |-> [camera_id \in FrameCameras |-> 0]]
    /\ whatsapp = NoWhatsappCall
    /\ worker_tasks = 0

\* Room for one more chunk from transport w under the cap on chunks per clip.
ChunkRoom(w, chunkCap) ==
    /\ rx[w] # <<>> => Len(rx[w][1].chunks) < chunkCap
    /\ tok[w] \in DOMAIN pending_video_data =>
           Len(pending_video_data[tok[w]].chunks) < chunkCap

\* The steps of the program with cameras T sending at most clipCap clip-begins
\* with clip numbers from N and chunkCap chunks per clip, the chunks drawn from B.
NextOf(T, N, clipCap, chunkCap, B) ==
    \/ \E w \in T : CameraReject(w)
    \/ \E w \in T : CameraAccept(w)
    \/ \E w \in T : ConnectCameraCheckOld(w)
    \/ \E w \in T : ConnectCameraInstall(w)
    \/ \E w \in T, c \in N :
          processing_stats.clips_received < clipCap /\ CameraVideoMetadata(w, c)
    \/ \E w \in T, c \in N : CameraVideoChunk(w, c)
    \/ \E w \in T, c \in N : CameraVideoComplete(w, c)
    \/ \E w \in T, b \in B : ChunkRoom(w, chunkCap) /\ CameraBinary(w, b)
    \/ \E w \in T : CameraDisconnect(w)
    \/ \E i \in Workers : WorkerGet(i)
    \/ \E i \in Workers : WorkerProcessed(i)
    \/ \E i \in Workers : WorkerFailed(i)

Next == NextOf(Transports, ClipNumbers, MaxClips, MaxChunks, Chunks)

ClipNext == NextOf(ClipTransports, ClipNumbers, MaxClips, MaxChunks, Chunks)

PoolNext == NextOf(PoolTransports, PoolClipNumbers, PoolMaxClips, PoolMaxChunks,
                   PoolChunks)

Spec == Init /\ [][Next]_vars

\* The clip protocol of one camera and the camera that supersedes it.
ClipSpec == Init /\ [][ClipNext]_vars

PoolSpec == Init /\ [][PoolNext]_vars

\* The alert engine on its own: calls of send_alert_message as time passes.
AlertNext ==
    \/ Tick
    \/ \E c \in CameraIds, d \in DetectionLists(MaxDet) : SendAlertMessage(c, d)

AlertSpec == Init /\ [][AlertNext]_vars

\* The detection lists of the dispatches of two workers: one detection each.
DispatchLists == DetectionLists(1)

\* Alert dispatches of the workers, one after the other in any order.
DispatchNext ==
    \/ \E camera_id \in CameraIds, detections \in DispatchLists :
           SendAlertMessage(camera_id, detections)
    \/ Tick

DispatchSpec == Init /\ [][DispatchNext]_vars

\* Detections at and just below the alert confidence: the last class of the
\* dangerous table, the class of the endangered table and a class of neither.
PartitionDetections == [class_id : {3, 4, 5}, confidence : {49, 50}]

PartitionLists == UNION {[1..k -> PartitionDetections] : k \in 1..MaxDet}

\* Calls of send_alert_message with such lists within one minute, for a camera
\* with a row and for one without.
PartitionNext ==
    \E camera_id \in {"T1", "unknown"}, detections \in PartitionLists :
        SendAlertMessage(camera_id, detections)

PartitionSpec == Init /\ [][PartitionNext]_vars

\* Detections above the alert confidence with two different confidences, of a
\* dangerous class and of the endangered class.
SelectionDetections == [class_id : {2, 4}, confidence : {60, 90}]

SelectionLists == UNION {[1..k -> SelectionDetections] : k \in 1..MaxDet}

\* Calls of send_alert_message with such lists as time passes.
SelectionNext ==
    \/ \E detections \in SelectionLists : SendAlertMessage("T1", detections)
    \/ Tick

SelectionSpec == Init /\ [][SelectionNext]_vars

\* The viewer registry on its own: viewers come and go while broadcasts and the
\* shutdown run.
BroadcastNext ==
    \/ \E v \in Viewers : ViewerAccept(v)
    \/ \E v \in Viewers : ViewerRegister(v)
    \/ \E v \in Viewers : DisconnectViewer(v)
    \/ \E v \in Viewers : ViewerGoesAway(v)
    \/ \E v \in Viewers : ViewerBreaks(v)
    \/ BroadcastStart
    \/ BroadcastResume
    \/ DisconnectAllStart
    \/ DisconnectAllResume

\* The shutdown while camera and viewer handlers run.
ShutdownNext ==
    \/ \E w \in ClipTransports : CameraAccept(w)
    \/ \E w \in ClipTransports : ConnectCameraCheckOld(w)
    \/ \E w \in ClipTransports : ConnectCameraInstall(w)
    \/ \E w \in ClipTransports : CameraDisconnect(w)
    \/ \E v \in Viewers : ViewerAccept(v)
    \/ \E v \in Viewers : ViewerRegister(v)
    \/ \E v \in Viewers : ViewerBreaks(v)
    \/ DisconnectAllStart
    \/ DisconnectAllCameraResume
    \/ DisconnectAllResume

ShutdownSpec == Init /\ [][ShutdownNext]_vars

BroadcastSpec == Init /\ [][BroadcastNext]_vars

\* One camera sends clips without chunks, up to MaxOutputClips of them, and the
\* workers process them.
OutputNext ==
    \/ CameraAccept(1)
    \/ ConnectCameraCheckOld(1)
    \/ \E c \in PoolClipNumbers :
          processing_stats.clips_received < MaxOutputClips /\ CameraVideoMetadata(1, c)
    \/ \E c \in PoolClipNumbers : CameraVideoComplete(1, c)
    \/ \E i \in Workers : WorkerGet(i)
    \/ \E i \in Workers : WorkerProcessed(i)
    \/ \E i \in Workers : WorkerFailed(i)

OutputSpec == Init /\ [][OutputNext]_vars

\* The clip protocol of one camera, without the workers.
ChunkCountNext ==
    \/ CameraAccept(1)
    \/ ConnectCameraCheckOld(1)
    \/ \E c \in ClipNumbers :
          processing_stats.clips_received < MaxClips /\ CameraVideoMetadata(1, c)
    \/ \E c \in ClipNumbers : CameraVideoChunk(1, c)
    \/ \E c \in ClipNumbers : CameraVideoComplete(1, c)
    \/ \E b \in Chunks : ChunkRoom(1, MaxChunks) /\ CameraBinary(1, b)
    \/ CameraDisconnect(1)

ChunkCountSpec == Init /\ [][ChunkCountNext]_vars

\* One camera that sends up to MaxBegins clip-begins, also while a clip is
\* being received.
ReplaceNext ==
    \/ CameraAccept(1)
    \/ ConnectCameraCheckOld(1)
    \/ \E c \in ClipNumbers :
          processing_stats.clips_received < MaxBegins /\ CameraVideoMetadata(1, c)
    \/ \E c \in ClipNumbers : CameraVideoComplete(1, c)
    \/ \E b \in Chunks : ChunkRoom(1, MaxChunks) /\ CameraBinary(1, b)
    \/ CameraDisconnect(1)

ReplaceSpec == Init /\ [][ReplaceNext]_vars

\* Cameras connecting, superseding each other and going away, without clips.
ConnectNext ==
    \/ \E w \in Transports : CameraReject(w)
    \/ \E w \in Transports : CameraAccept(w)
    \/ \E w \in Transports : ConnectCameraCheckOld(w)
    \/ \E w \in Transports : ConnectCameraInstall(w)
    \/ \E w \in Transports : CameraDisconnect(w)

ConnectSpec == Init /\ [][ConnectNext]_vars

\* Calls of send_wildlife_whatsapp_alert with up to MaxRecipients entries.
WhatsappNext ==
    \E n \in 0..MaxRecipients :
        \E phone_numbers \in [1..n -> PhoneEntries], responses \in [1..n -> SendResponses],
           video \in Videos :
            SendWildlifeWhatsappAlert(phone_numbers, responses, video)

WhatsappSpec == Init /\ [][WhatsappNext]_vars

\* The live-frame processor on its own.
ThrottleNext ==
    \/ \E camera_id \in FrameCameras : frames < MaxFrames /\ FrameUndecodable(camera_id)
    \/ \E k \in FrameTasks, camera_id \in FrameCameras :
          frames < MaxFrames /\ FrameArrives(k, camera_id)
    \/ \E k \in FrameTasks : FrameInferred(k)
    \/ \E k \in FrameTasks : FrameEncoded(k)
    \/ PerfTick

ThrottleSpec == Init /\ [][ThrottleNext]_vars

\* The live stream of one camera, long enough for the interval to reach its
\* maximum and for a counter to reach it.
StaleNext ==
    \/ frames < MaxStreamFrames /\ FrameUndecodable("A")
    \/ \E k \in FrameTasks : frames < MaxStreamFrames /\ FrameArrives(k, "A")
    \/ \E k \in FrameTasks : FrameInferred(k)
    \/ \E k \in FrameTasks : FrameEncoded(k)
    \/ PerfTick

StaleSpec == Init /\ [][StaleNext]_vars

\* The clip protocol with cameras that also send text that is no control message.
ProtocolNext ==
    \/ ClipNext
    \/ \E w \in ClipTransports, kind \in {"invalid_json", "unknown_type"} :
           CameraTextIgnored(w, kind)
    \/ \E w \in ClipTransports : CameraTextNotObject(w)

ProtocolSpec == Init /\ [][ProtocolNext]_vars

\* The viewer connections on their own: the handlers of the viewers and the
\* callers of disconnect_viewer.
ViewerNext ==
    \/ \E v \in Viewers : ViewerAccept(v)
    \/ \E v \in Viewers : ViewerRegister(v)
    \/ \E v \in Viewers : ViewerGoesAway(v)
    \/ \E v \in Viewers : ViewerBreaks(v)
    \/ \E v \in Viewers : ViewerHandlerEnds(v)
    \/ \E v \in Viewers : DisconnectViewer(v)
    \/ \E v \in Viewers, camera_token \in {ViewedToken, UnknownToken} :
           DisconnectViewerAgain(v, camera_token)

ViewerSpec == Init /\ [][ViewerNext]_vars

\* The event loop runs every viewer handler that can take a step.
ViewerFairSpec ==
    /\ ViewerSpec
    /\ \A v \in Viewers :
           WF_vars(ViewerAccept(v) \/ ViewerRegister(v) \/ ViewerHandlerEnds(v))

\* Fair scheduling of the worker pool: the event loop runs every ready worker
\* coroutine, and an inference that was started ends (normally or by raising).
PoolFairSpec ==
    /\ PoolSpec
    /\ WF_vars(\E i \in Workers : WorkerGet(i))
    /\ \A i \in Workers : WF_vars(WorkerProcessed(i) \/ WorkerFailed(i))

\* ------------------------------------------------------------------- claims

\* No connect_camera call is between its accept and its install.
NoConnectInProgress == \A w \in Transports : pc[w] \notin {"accepted", "closing_old"}

\* C1: for every camera token at most one camera transport is open at any
\* instant (stated outside the window in which a connect_camera call is
\* replacing the old transport by the new one).
C1_OneOpenCameraPerToken ==
    NoConnectInProgress =>
        \A a, b \in Transports :
            (IsOpen(a) /\ IsOpen(b) /\ tok[a] = tok[b]) => a = b

RECURSIVE ConcatAll(_)
\* b1 + b2 + ... + bn
ConcatAll(chunks) ==
    IF chunks = <<>> THEN <<>> ELSE Head(chunks) \o ConcatAll(Tail(chunks))

\* Transport w's clip-end carrying the sequence number of its own clip-begin
\* is handled in this step.
OwnClipEnd(w) == rx[w] # <<>> /\ rx'[w] = <<>> /\ pc'[w] = "loop"

\* C2: the chunks b1..bn a transport sent between its clip-begin(s) and its
\* clip-end(s) are submitted as exactly one task whose payload is b1+...+bn,
\* and the camera has no pending clip afterwards.
C2_ClipEndSubmitsConcatenation ==
    [][\A w \in Transports :
          OwnClipEnd(w) =>
              /\ Len(video_processing_queue') = Len(video_processing_queue) + 1
              /\ video_processing_queue'[Len(video_processing_queue')].video_data
                     = ConcatAll(rx[w][1].chunks)
              /\ tok[w] \notin DOMAIN pending_video_data']_vars

\* C3: a clip-end whose sequence number differs from the pending clip's submits
\* no task: the processing queue is unchanged by that message.
C3_MismatchedEndSubmitsNothing ==
    [][last' = "complete_mismatch" =>
          /\ video_processing_queue' = video_processing_queue
          /\ Len(taken') = Len(taken)]_vars

\* C3 witness: a mismatching clip-end was handled while a clip with a chunk was pending.
C3_Witness ==
    /\ last = "complete_mismatch"
    /\ \E t \in DOMAIN pending_video_data : pending_video_data[t].received_chunks > 0

\* C4: a clip-end whose sequence number differs from the pending clip's discards
\* the pending clip, leaving the camera without a pending clip.
C4_MismatchedEndDiscardsClip ==
    [][last' = "complete_mismatch" =>
          \E t \in DOMAIN pending_video_data : t \notin DOMAIN pending_video_data']_vars

\* The handler of transport w ends in this step.
HandlerEnds(w) == pc[w] = "loop" /\ pc'[w] = "done"

\* C5: when a camera's read loop ends while a clip is pending for its token, the
\* pending clip is removed, the step submits nothing, and no task is submitted
\* for the discarded clip later.
C5_DisconnectDiscardsPendingClip ==
    /\ [][\A w \in Transports :
             (HandlerEnds(w) /\ tok[w] \in DOMAIN pending_video_data) =>
                 /\ tok[w] \notin DOMAIN pending_video_data'
                 /\ video_processing_queue' = video_processing_queue
                 /\ Len(taken') = Len(taken)]_vars
    /\ [][\A k \in DOMAIN fate :
             fate[k] = "discarded" => fate'[k] = "discarded"]_vars

\* C5 witness: a handler ended while a clip with a chunk was pending, and another
\* camera of the token is still in its read loop.
C5_Witness ==
    /\ last = "disconnect_discard"
    /\ \E k \in DOMAIN fate : fate[k] = "discarded"
    /\ \E w \in Transports : pc[w] = "loop" /\ closeCode[w] = 0

\* How often task id occurs in the processing queue / in the hands of workers.
InQueue(id) == Cardinality({n \in DOMAIN video_processing_queue :
                               video_processing_queue[n].id = id})
InWorkers(id) == Cardinality({i \in Workers : wtask[i] # <<>> /\ wtask[i][1].id = id})

\* C6: every submitted task is taken by at most one worker and processed at most
\* once; a task is either still queued or was taken exactly once, and a task
\* whose processing ended (also by failing) is not queued again.
C6_TaskTakenAtMostOnce ==
    \A id \in DOMAIN taken :
        /\ taken[id] <= 1
        /\ finished[id] <= 1
        /\ InQueue(id) + taken[id] = 1
        /\ InWorkers(id) + finished[id] = taken[id]

\* C6 witness: two workers process different tasks at the same time.
C6_Witness ==
    /\ wtask[1] # <<>> /\ wtask[2] # <<>>
    /\ wtask[1][1].id # wtask[2][1].id

\* Task id was taken and its processing ended, each exactly once.
Consumed(id) == Len(taken) >= id /\ taken[id] = 1 /\ finished[id] = 1

\* C7: under fair scheduling every submitted task is eventually consumed, exactly
\* once, the queue depth eventually stays at zero, and the depth rises only when a
\* task is submitted.
C7_EveryTaskEventuallyConsumed ==
    /\ \A id \in 1..PoolMaxClips : (Len(taken) >= id) ~> Consumed(id)
    /\ \A id \in 1..PoolMaxClips : [](Len(finished) >= id => finished[id] <= 1)
    /\ <>[](video_processing_queue = <<>>)
    /\ [][Len(video_processing_queue') > Len(video_processing_queue) =>
             Len(taken') = Len(taken) + 1]_vars

\* C7 witness: the queue held two tasks at once.
C7_Witness == Len(video_processing_queue) >= 2

\* The attempts the step added to alert_log.
NewAttempts == {alert_log'[i] : i \in (Len(alert_log) + 1)..Len(alert_log')}

\* The step is a send_alert_message call for a camera with a row.
AlertCall == call'.n = call.n + 1 /\ call'.camera_id \in DOMAIN Cameras

\* The detection list of the call holds a qualifying dangerous detection.
HasDangerous(detections) == \E k \in DOMAIN detections : IsDangerous(detections[k])

\* No two attempts on the channel for one location lie less than the cooldown
\* window apart.
Spaced(channel) ==
    \A i, j \in DOMAIN alert_log :
        (/\ i < j
         /\ alert_log[i].channel = channel /\ alert_log[j].channel = channel
         /\ alert_log[i].location = alert_log[j].location)
        => alert_log[j].at - alert_log[i].at >= ALERT_COOLDOWN_MINUTES

\* C8: no two civilian sends for one location are less than the cooldown window
\* apart, and a call with a qualifying dangerous detection made when the civilian
\* cooldown of the location has elapsed (or was never started) makes a civilian send.
C8_CivilianCooldown ==
    /\ [](Spaced("civilian"))
    /\ [][(/\ AlertCall
           /\ HasDangerous(call'.detections)
           /\ _can_send_civilian_alert(_alert_cache, LocationOf(call'.camera_id), now))
          => \E a \in NewAttempts :
                 a.channel = "civilian" /\ a.location = LocationOf(call'.camera_id)]_vars

\* C9: no two official sends for one location are less than the cooldown window
\* apart, whatever their tier, and every official send leaves the official
\* cooldown entry of its location at the time of the send.
C9_OfficialCooldown ==
    /\ [](Spaced("official"))
    /\ [][\A a \in NewAttempts :
             a.channel = "official" =>
                 /\ <<"official", a.location>> \in DOMAIN _alert_cache'
                 /\ _alert_cache'[<<"official", a.location>>] = a.at]_vars

\* The civilian cooldown entries of the cache.
CivilianEntries(cache) ==
    [k \in {x \in DOMAIN cache : x[1] = "civilian"} |-> cache[k]]

\* C10: a call with a qualifying dangerous detection makes an official attempt
\* and, when the civilian cooldown allows, a civilian attempt; no attempt for an
\* endangered detection is on the civilian channel, and a call without a
\* qualifying dangerous detection leaves the civilian cooldown entries alone.
C10_SeverityRouting ==
    [][AlertCall =>
          /\ HasDangerous(call'.detections) =>
                 /\ \E a \in NewAttempts :
                        a.channel = "official" /\ a.tier = "dangerous"
                 /\ _can_send_civilian_alert(_alert_cache,
                                            LocationOf(call'.camera_id), now)
                        => \E a \in NewAttempts :
                               a.channel = "civilian" /\ a.tier = "dangerous"
          /\ \A a \in NewAttempts : a.tier = "endangered" => a.channel = "official"
          /\ ~HasDangerous(call'.detections) =>
                 CivilianEntries(_alert_cache') = CivilianEntries(_alert_cache)]_vars

\* C11: when a worker has processed the clip of a registered camera and the
\* detection result holds a dangerous detection at or above the threshold, that
\* step makes one civilian and one official alert attempt for the camera's
\* location and leaves a civilian cooldown entry for it.
C11_EndToEndAlert ==
    [][\A i \in Workers :
          (wtask[i] # <<>> /\ wtask'[i] = <<>> /\ last' = "processed_dangerous") =>
              LET location == LocationOf(wtask[i][1].token)
              IN /\ \E a \in NewAttempts :
                        a.channel = "civilian" /\ a.location = location
                 /\ \E a \in NewAttempts :
                        a.channel = "official" /\ a.location = location
                 /\ <<"civilian", location>> \in DOMAIN _alert_cache']_vars


\* ---------------------------------------------------------------- broadcasts

\* Viewers registered for the token now.
Registered == IF ViewedToken \in DOMAIN viewers THEN Range(viewers[ViewedToken]) ELSE {}

\* A broadcast that ran without anything else touching the viewers, over a list
\* with exactly one broken viewer, has returned.
LoneBrokenViewer ==
    /\ bcast.pc = "returned"
    /\ bcast.quiet
    /\ Cardinality(bcast.broken) = 1
    /\ Cardinality(Range(bcast.start)) >= 2

\* C12: a broadcast over a viewer list with exactly one broken viewer delivers
\* to every other viewer and leaves the list without the broken viewer.
C12_BrokenViewerRemoved ==
    LoneBrokenViewer =>
        /\ bcast.delivered = Range(bcast.start) \ bcast.broken
        /\ Registered = Range(bcast.start) \ bcast.broken

\* C13: a broadcast never ends by raising to its caller, whatever the viewers
\* and the shutdown do while it runs.
C13_BroadcastNeverRaises == bcast.pc # "raised"

\* C19: a broadcast that has returned tried to send to every viewer that was
\* registered when it started and is still registered and connected.
C19_EveryLiveViewerAttempted ==
    bcast.pc = "returned" =>
        \A v \in Range(bcast.start) :
            (v \in Registered /\ vclient[v] = "CONNECTED") => v \in bcast.attempted

\* C20: a clip whose inference backend fails is counted as failed and nothing is
\* queued for it.
C20_BackendFailureDropsTask ==
    [][last' = "backend_error" =>
          /\ processing_stats'.clips_failed = processing_stats.clips_failed + 1
          /\ processing_stats'.clips_processed = processing_stats.clips_processed
          /\ processed_video_queues' = processed_video_queues]_vars

\* ---------------------------------------------------- overlapping connects

\* C18: when a connect_camera call that was suspended in the close of the old
\* transport installs its transport, that transport is the registered one and
\* every other transport of the token whose connect_camera call has returned
\* is closed: none is left open but unregistered.
C18_OverlappingConnectsLeaveOne ==
    [][\A w \in Transports :
          (pc[w] = "closing_old" /\ pc'[w] = "loop") =>
              /\ active_connections'[tok[w]] = w
              /\ \A v \in Transports \ {w} :
                     (tok[v] = tok[w] /\ pc'[v] = "loop") => closeCode'[v] # 0]_vars

\* ------------------------------------------------------ concurrent dispatches

\* send_alert_message has no await that suspends between reading the cooldown
\* and writing it (the database session and the evidence file are used
\* synchronously), so dispatches of two workers run one after the other in
\* either order.

\* A dispatch for a dangerous detection at the location made an attempt less
\* than the window ago (every such dispatch starts with the official attempt).
RecentDangerousDispatch(location) ==
    \E i \in DOMAIN alert_log :
        /\ alert_log[i].tier = "dangerous"
        /\ alert_log[i].location = location
        /\ now - alert_log[i].at < ALERT_COOLDOWN_MINUTES

\* A civilian attempt for the location was made less than the window ago.
RecentCivilianSend(location) ==
    \E i \in DOMAIN alert_log :
        /\ alert_log[i].channel = "civilian"
        /\ alert_log[i].location = location
        /\ now - alert_log[i].at < ALERT_COOLDOWN_MINUTES

C14_ColdStartRuns == decision.cold => decision.run

\* A decision was taken for a camera without a prior inference while the
\* counter was below the interval and the cache duration had not passed.
C14_Witness ==
    /\ decision.made
    /\ decision.cold
    /\ perf_counter <= detection_cache_duration
    /\ frames_since_inference[decision.camera_id] < inference_interval

IntervalOf(camera_id) == inference_interval

\* C16: a step of a process_frame call for one camera leaves the interval, the
\* counter and the cache entry of every other tracked camera unchanged.
C16_ThrottleStatePerCamera ==
    [][\A k \in FrameTasks :
          (ftask[k].pc # "idle" /\ ftask'[k] # ftask[k]) =>
              \A b \in DOMAIN frames_since_inference \ {ftask[k].camera_id} :
                  /\ IntervalOf(b)' = IntervalOf(b)
                  /\ frames_since_inference'[b] = frames_since_inference[b]
                  /\ last_detections'[b] = last_detections[b]]_vars

\* ------------------------------------------------------------ failed clips

\* The step is the end of a processing that raised, in the hands of worker i.
FailedBy(i) ==
    /\ wtask[i] # <<>>
    /\ wtask'[i] # wtask[i]
    /\ processing_stats'.clips_failed = processing_stats.clips_failed + 1

\* C21: a processing that raises leaves its worker at the head of its loop with
\* nothing in hand and every other worker as it was, the workers stay started,
\* and under fair scheduling every task submitted before or after a failure is
\* eventually consumed.
C21_FailedClipStopsNothing ==
    /\ [][\A i \in Workers :
             FailedBy(i) =>
                 /\ wtask'[i] = <<>>
                 /\ \A j \in Workers \ {i} : wtask'[j] = wtask[j]
                 /\ _background_worker_started']_vars
    /\ \A id \in 1..PoolMaxClips :
           (processing_stats.clips_failed > 0 /\ Len(taken) >= id) ~> Consumed(id)

\* The worker whose first task failed has the second task in hand.
C21_Witness ==
    /\ processing_stats.clips_failed = 1
    /\ processing_stats.clips_processed = 0
    /\ wtask[1] # <<>>
    /\ wtask[1][1].id = 2
    /\ finished[1] = 1

\* ----------------------------------------------------------- protocol errors

\* The messages that are protocol errors: text that is not JSON, JSON that is
\* not an object, a clip-end with a mismatching number, a chunk without a clip.
ProtocolErrors == {"invalid_json", "not_object", "complete_mismatch", "chunk_rejected"}

\* C22: a protocol error leaves every handler where it was (the sender's read
\* loop goes on), closes nothing, leaves the camera registered and submits no
\* task.
C22_ProtocolErrorKeepsConnection ==
    [][last' \in ProtocolErrors =>
          /\ pc' = pc
          /\ closeCode' = closeCode
          /\ active_connections' = active_connections
          /\ video_processing_queue' = video_processing_queue]_vars

\* ------------------------------------------------------- viewer teardown

\* C23: a registered viewer whose socket disconnected, or on which a receive
\* fails, is eventually no longer in the viewer list of its token.
C23_GoneViewerRemoved ==
    \A v \in Viewers :
        (v \in Registered /\ (vclient[v] = "DISCONNECTED" \/ vsendfails[v]))
            ~> (v \notin Registered)

\* C24: disconnect_viewer for a transport that is not in the viewer list of
\* the token, or for a token without a list, changes nothing in the registry;
\* so a second call for a removed transport has no effect.
C24_DisconnectViewerIdempotent ==
    [][\A v \in Viewers, camera_token \in {ViewedToken, UnknownToken} :
          DisconnectViewerAgain(v, camera_token) =>
              /\ viewers' = viewers
              /\ active_connections' = active_connections]_vars

\* disconnect_viewer was called for a removed transport while another viewer
\* was registered.
C24_Witness ==
    /\ last = "disconnect_viewer_absent"
    /\ Registered # {}
    /\ \E v \in Viewers : vpc[v] = "registered" /\ v \notin Registered

\* --------------------------------------------------------- next-video query

\* The output queue of a token, empty when the token has none.
OutputQueue(token) ==
    IF token \in DOMAIN processed_video_queues
    THEN processed_video_queues[token] ELSE <<>>

\* Worker i completes the clip of its task in this step.
CompletedBy(i) ==
    /\ wtask[i] # <<>>
    /\ wtask'[i] # wtask[i]
    /\ processing_stats'.clips_processed = processing_stats.clips_processed + 1

\* C26 as stated: whenever the output queue of a token holds clips, the
\* next-video query does not return the most recently completed clip, which is
\* the last one of the queue.
C26_NeverTheLatest ==
    \A token \in DOMAIN processed_video_queues :
        LET queue == processed_video_queues[token]
        IN queue # <<>> => get_video_for_viewer(token) # <<queue[Len(queue)]>>

\* C26, amended: the clip a worker completes becomes the last of its token's
\* output queue; from then on the next-video query returns the clip that was
\* the most recently completed one before (one behind the latest) when there
\* was one, and the completed clip itself when it is the only one of the queue.
C26_NextVideoOneBehind ==
    [][\A i \in Workers, token \in DOMAIN processed_video_queues' :
          (CompletedBy(i) /\ wtask[i][1].token = token) =>
              LET before == OutputQueue(token)
                  after == processed_video_queues'[token]
              IN /\ after[Len(after)].id = wtask[i][1].id
                 /\ get_video_for_viewer(token)' =
                        IF before # <<>> THEN <<before[Len(before)]>>
                        ELSE <<after[Len(after)]>>
                 /\ before # <<>> =>
                        get_video_for_viewer(token)' # <<after[Len(after)]>>]_vars

\* Two clips of one token are completed: the query returns the first of them.
C26_Witness ==
    \E token \in DOMAIN processed_video_queues :
        /\ Len(processed_video_queues[token]) = 2
        /\ get_video_for_viewer(token) = <<processed_video_queues[token][1]>>
        /\ processed_video_queues[token][1].id # processed_video_queues[token][2].id

\* ------------------------------------------------------- throttle decisions

\* C28: the decision for a frame is RUN exactly when the counter of the camera
\* modulo the interval is zero, or more than detection_cache_duration seconds
\* have passed since the last inference of the camera, or no inference has run
\* for the camera; else it is CACHE.
C28_RunIffModuloOrStaleOrCold ==
    [][\A k \in FrameTasks, camera_id \in FrameCameras :
          FrameArrives(k, camera_id) =>
              LET timestamp == Tracked(last_detections, camera_id)[camera_id]
              IN ftask'[k].run <=>
                     \/ frames_since_inference'[camera_id] % inference_interval = 0
                     \/ (perf_counter - timestamp) > detection_cache_duration
                     \/ timestamp = 0]_vars

\* C29: the call for a frame served from the cache ends with the inference
\* interval as it was.
C29_CachedFrameKeepsInterval ==
    [][\A k \in FrameTasks :
          (ftask[k].pc = "encoding" /\ ~ftask[k].run /\ ftask'[k].pc = "idle") =>
              inference_interval' = inference_interval]_vars

\* ---------------------------------------------------------- alert partition

\* C30: in a call of send_alert_message every attempt of the dangerous tier is
\* for a detection of a class in {0,1,2,3} with a confidence of at least 0.50,
\* every attempt of the endangered tier for a detection of class 4 with a
\* confidence of at least 0.50, a detection of a dangerous class at 0.50 or more
\* is alerted on as dangerous, and a list without a detection of either kind
\* adds no attempt and leaves the cooldown cache as it was.
C30_PartitionByClassAndConfidence ==
    [][call'.n # call.n =>
          LET detections == call'.detections
              dangerous == {k \in DOMAIN detections :
                               /\ detections[k].class_id \in {0, 1, 2, 3}
                               /\ detections[k].confidence >= 50}
              endangered == {k \in DOMAIN detections :
                                /\ detections[k].class_id \in {4}
                                /\ detections[k].confidence >= 50}
          IN /\ \A a \in NewAttempts :
                    /\ a.tier = "dangerous" =>
                           \E k \in dangerous : detections[k].confidence = a.confidence
                    /\ a.tier = "endangered" =>
                           \E k \in endangered : detections[k].confidence = a.confidence
             /\ (dangerous # {} /\ call'.camera_id \in DOMAIN Cameras) =>
                    \E a \in NewAttempts : a.tier = "dangerous"
             /\ (dangerous = {} /\ endangered # {}
                     /\ call'.camera_id \in DOMAIN Cameras
                     /\ _can_send_official_alert(_alert_cache,
                                                 LocationOf(call'.camera_id), now)) =>
                    \E a \in NewAttempts : a.tier = "endangered"
             /\ (dangerous = {} /\ endangered = {}) =>
                    /\ alert_log' = alert_log
                    /\ _alert_cache' = _alert_cache]_vars

\* A call for a camera with a row whose list holds a dangerous class below the
\* alert confidence and a class of neither table at it: nothing was attempted.
C30_Witness ==
    /\ call.n > 0
    /\ call.camera_id \in DOMAIN Cameras
    /\ \E k \in DOMAIN call.detections :
           call.detections[k] = [class_id |-> 3, confidence |-> 49]
    /\ \E k \in DOMAIN call.detections :
           call.detections[k] = [class_id |-> 5, confidence |-> 50]
    /\ alert_log = <<>>

\* ---------------------------------------------------------- alert selection

\* The highest confidence among the detections of the list at the indices S.
HighestConfidence(detections, S) ==
    CHOOSE c \in {detections[k].confidence : k \in S} :
        \A k \in S : detections[k].confidence <= c

\* C27: every attempt of a call of send_alert_message is for the detection of
\* the highest confidence of the dangerous bucket when that bucket is not empty,
\* and else for the one of the highest confidence of the endangered bucket.
C27_OnlyHighestConfidenceAlerted ==
    [][AlertCall =>
          LET detections == call'.detections
              dangerous == {k \in DOMAIN detections : IsDangerous(detections[k])}
              endangered == {k \in DOMAIN detections : IsEndangered(detections[k])}
          IN \A a \in NewAttempts :
                 IF dangerous # {}
                 THEN /\ a.tier = "dangerous"
                      /\ a.confidence = HighestConfidence(detections, dangerous)
                 ELSE /\ a.tier = "endangered"
                      /\ a.confidence = HighestConfidence(detections, endangered)]_vars

\* ------------------------------------------------------------------ shutdown

\* C25: when disconnect_all ends, close(1001) has been called on every camera
\* and viewer transport that was registered when it was called, and the camera
\* map and the viewer map are empty.
C25_ShutdownClosesAllAndClears ==
    [][(dall.pc \notin {"done", "raised"} /\ dall'.pc \in {"done", "raised"}) =>
          /\ dall'.pending = {}
          /\ active_connections' = EmptyDict
          /\ viewers' = EmptyDict]_vars

\* ------------------------------------------------------ WhatsApp recipients

\* The call was made with recipients and went through its loop.
WhatsappSummary == whatsapp.result.data[1]

\* Entry k of the list was sent to and the API accepted it.
Delivered(k) ==
    whatsapp.phone_numbers[k].str /\ whatsapp.responses[k] = "sent"

\* The result has one entry per recipient, in order, with the outcome of that
\* recipient; successful and failed add up to the recipients; success is true
\* iff a recipient succeeded.
PerRecipientResults ==
    /\ whatsapp.result.data # <<>>
    /\ Len(WhatsappSummary.results) = Len(whatsapp.phone_numbers)
    /\ \A k \in DOMAIN whatsapp.phone_numbers :
           /\ WhatsappSummary.results[k].success = Delivered(k)
           /\ WhatsappSummary.results[k].phone.digits
                  \in {whatsapp.phone_numbers[k].digits,
                       <<9, 7, 7>> \o whatsapp.phone_numbers[k].digits}
    /\ WhatsappSummary.successful =
           Cardinality({k \in DOMAIN whatsapp.phone_numbers : Delivered(k)})
    /\ WhatsappSummary.successful + WhatsappSummary.failed = Len(whatsapp.phone_numbers)
    /\ whatsapp.result.success = (\E k \in DOMAIN whatsapp.phone_numbers : Delivered(k))

\* C31: every call with a non-empty recipient list returns without raising,
\* with one result entry per recipient and the aggregate of them.
C31_EveryRecipientAttempted ==
    (whatsapp.called /\ whatsapp.phone_numbers # <<>>) =>
        /\ ~whatsapp.result.raised
        /\ PerRecipientResults

\* ------------------------------------------------------ declared chunk count

\* C32: whatever chunk count was declared, a binary message is appended to the
\* pending clip of the token, a clip-end with the number of the pending clip
\* submits one task whose payload is the concatenation of all chunks of that
\* clip and removes the clip, and a chunk-count message with another clip
\* number leaves the pending clips as they are.
C32_ChunkCountNotEnforced ==
    [][\A w \in Transports :
          /\ \A chunk \in Chunks :
                 (CameraBinary(w, chunk) /\ tok[w] \in DOMAIN pending_video_data) =>
                     pending_video_data'[tok[w]].chunks =
                         Append(pending_video_data[tok[w]].chunks, chunk)
          /\ \A c \in ClipNumbers :
                 /\ (/\ CameraVideoComplete(w, c)
                     /\ tok[w] \in DOMAIN pending_video_data
                     /\ pending_video_data[tok[w]].clip_number = c) =>
                        /\ Len(video_processing_queue') = Len(video_processing_queue) + 1
                        /\ video_processing_queue'[Len(video_processing_queue')].video_data
                               = ConcatAll(pending_video_data[tok[w]].chunks)
                        /\ tok[w] \notin DOMAIN pending_video_data'
                 /\ (/\ CameraVideoChunk(w, c)
                     /\ tok[w] \in DOMAIN pending_video_data
                     /\ pending_video_data[tok[w]].clip_number # c) =>
                        pending_video_data' = pending_video_data]_vars

\* A clip for which one chunk was declared has taken a second chunk.
C32_Witness ==
    /\ last = "other"
    /\ \E t \in DOMAIN pending_video_data :
           /\ pending_video_data[t].expected_chunks = 1
           /\ pending_video_data[t].received_chunks = 2
           /\ Len(pending_video_data[t].chunks) = 2

\* -------------------------------------------------------------- output queue

\* The last n elements of a sequence.
LastN(q, n) == IF Len(q) <= n THEN q ELSE SubSeq(q, Len(q) - n + 1, Len(q))

Published(id) ==
    \E token \in DOMAIN processed_video_queues :
        \E k \in DOMAIN processed_video_queues[token] :
            processed_video_queues[token][k].id = id

\* C34: the alert dispatch of a clip is not waited for: when a worker's step
\* runs send_alert_message for the dangerous detections of its clip, the clip
\* has been put into the output queue before.
C34_ClipPublishedBeforeDispatchEnds ==
    [][\A i \in Workers :
          (wtask[i] # <<>> /\ wtask'[i] # wtask[i] /\ last' = "processed_dangerous") =>
              Published(wtask[i][1].id)]_vars

\* ------------------------------------------------- cleanup of a superseded camera

\* get_camera_status: the camera of the token is reported as connected
is_camera_connected(token) == token \in DOMAIN active_connections

\* Transport a was closed with SUPERSEDED and transport b is the registered
\* camera of a's token.
SupersededBy(a, b) ==
    /\ a # b
    /\ closeCode[a] = SUPERSEDED
    /\ tok[b] = tok[a]
    /\ is_camera_connected(tok[a])
    /\ active_connections[tok[a]] = b

\* C35: when the handler of a superseded camera A ends while its successor B
\* is the registered camera of the token, B is still registered afterwards and
\* the status query still reports the camera as connected.
C35_SupersededCleanupKeepsSuccessor ==
    [][\A a, b \in Transports :
          (HandlerEnds(a) /\ SupersededBy(a, b)) =>
              /\ is_camera_connected(tok[a])'
              /\ active_connections'[tok[a]] = b]_vars

\* C36: when the handler of a superseded camera A ends after its successor B
\* has begun a clip, B's pending clip is left as it is, so that B's chunks are
\* still appended to it and B's clip-end still submits it.
C36_SupersededCleanupKeepsSuccessorClip ==
    [][\A a, b \in Transports :
          (HandlerEnds(a) /\ SupersededBy(a, b) /\ rx[b] # <<>>
             /\ tok[b] \in DOMAIN pending_video_data) =>
              /\ tok[b] \in DOMAIN pending_video_data'
              /\ pending_video_data'[tok[b]] = pending_video_data[tok[b]]]_vars

\* ------------------------------------------------------ replaced pending clips

\* The clip-begins whose clip is being received.
PendingBegins == {k \in DOMAIN fate : fate[k] = "pending"}

\* The clip-begin of a task that was submitted.
SubmittedBegins ==
    {video_processing_queue[n].metadata : n \in DOMAIN video_processing_queue}
        \cup {wtask[i][1].metadata : i \in {j \in Workers : wtask[j] # <<>>}}

\* C37: at most one clip is pending per camera token; a clip-begin that arrives
\* while a clip is being received leaves an empty pending clip and the replaced
\* clip is never submitted; the pending clip holds exactly the chunks received
\* since the latest clip-begin, so no chunk of a replaced clip is in a payload.
C37_OnePendingClipPerToken ==
    /\ [](/\ Cardinality(PendingBegins) <= Cardinality(DOMAIN pending_video_data)
          /\ \A token \in DOMAIN pending_video_data :
                 /\ PendingBegins = {pending_video_data[token].metadata}
                 /\ rx[1] # <<>>
                 /\ pending_video_data[token].chunks = rx[1][1].chunks
          /\ \A k \in SubmittedBegins : fate[k] = "submitted")
    /\ [][(pc[1] = "loop" /\ tok[1] \in DOMAIN pending_video_data
            /\ processing_stats'.clips_received = processing_stats.clips_received + 1) =>
              /\ pending_video_data'[tok[1]].chunks = <<>>
              /\ pending_video_data'[tok[1]].received_chunks = 0
              /\ fate'[pending_video_data[tok[1]].metadata] = "replaced"]_vars
    /\ [][\A k \in DOMAIN fate : fate[k] = "replaced" => fate'[k] = "replaced"]_vars

\* C37 witness: a clip-begin replaced a pending clip that held a chunk.
C37_Witness ==
    /\ last = "begin_replaces"
    /\ \E k \in DOMAIN fate : fate[k] = "replaced"
    /\ \E token \in DOMAIN pending_video_data : pending_video_data[token].chunks = <<>>

\* ------------------------------------------------------------ the worker pool

\* The camera transports whose handler passed the token lookup and called
\* start_background_workers.
AcceptedCameras == {w \in Transports : pc[w] # "new" /\ closeCode[w] # NOT_FOUND}

\* C38: no worker task exists before the first accepted camera connection, and
\* exactly _worker_count exist afterwards, however many cameras connect,
\* reconnect or disconnect.
C38_WorkerPoolFixedSize ==
    worker_tasks = IF AcceptedCameras = {} THEN 0 ELSE _worker_count

\* C38 witness: three cameras were accepted, one of them has gone and one is
\* in its read loop, and the pool has its _worker_count workers.
C38_Witness ==
    /\ Cardinality(AcceptedCameras) >= 3
    /\ \E a, b \in AcceptedCameras : pc[a] = "done" /\ pc[b] = "loop"
    /\ \E w \in AcceptedCameras : pc[w] \in {"accepted", "closing_old"}
    /\ worker_tasks = _worker_count

\* ------------------------------------------------------ order of the artifacts

\* C39: the artifacts of a camera are in its output queue in the order their
\* clips were submitted: the task ids increase along every output queue.
C39_OutputInSubmissionOrder ==
    \A token \in DOMAIN processed_video_queues :
        \A j, k \in DOMAIN processed_video_queues[token] :
            j < k => processed_video_queues[token][j].id <
                         processed_video_queues[token][k].id

\* ------------------------------------------------- staleness of the overlay

\* C40: for every camera the CACHE decisions taken since its last RUN decision
\* never number more than max_inference_interval - 1, whatever the interval
\* was adjusted to in between.
C40_BoundedCachedRun ==
    \A camera_id \in FrameCameras :
        decision.cached[camera_id] <= max_inference_interval - 1

\* C40 witness: max_inference_interval - 1 frames in a row were served from
\* the cache after the interval had been raised to its maximum.
C40_Witness ==
    /\ decision.made
    /\ ~decision.run
    /\ decision.cached[decision.camera_id] = max_inference_interval - 1
    /\ inference_interval = max_inference_interval
====
